---------------------------- MODULE Spec2Model ----------------------------
(***************************************************************************)
(* Numeric kernels of packages/wasm/rust (reduct): sorting, compression,   *)
(* dimension and parameter validation, scalar statistics and k-means.      *)
(*                                                                         *)
(* Every kernel is a call-and-return function over caller buffers.  A call  *)
(* is one action: it draws its arguments from bounded sets, runs the       *)
(* kernel as the source computes it and records kernel / input / output.   *)
(* k-means is modelled step by step (seeding, assignment pass, centroid    *)
(* update) because its loop and its random choices are what is verified.   *)
(*                                                                         *)
(* f64 values are modelled by integers (exact arithmetic); the value NaN   *)
(* is the string "NaN" where a kernel can produce or read it.  A Rust      *)
(* panic (index out of bounds, unwrap of None, arithmetic overflow) is the *)
(* result status "panic"; Err(JsValue) is "err"; Ok(..) is "ok".           *)
(***************************************************************************)
EXTENDS Integers, Sequences, FiniteSets, TLC

VARIABLES kernel,   \* name of the kernel of the last call ("none" at start)
          input,    \* its arguments
          output,   \* its result
          prev,     \* the call before the last one: [kernel, input, output]
          km        \* k-means: the locals of kmeans_clustering_f64

vars == <<kernel, input, output, prev, km>>

NoCall == [kernel |-> "none", input |-> <<>>, output |-> <<>>]
KmIdle == [pc |-> "idle"]

--------------------------------------------------------------------------
(* Bounds of the model *)

MaxLen == 4      \* longest exhaustively enumerated buffer / text
MaxVal == 2      \* buffer values are 0..MaxVal
MaxPayloadChars == 2   \* characters of the texts behind the crafted payloads
MaxPayloadLen == 3     \* longest arbitrary run-length payload
MaxPoints == 3         \* k-means: most data points of a call
MaxIterations == 2     \* k-means: greatest max_iterations of a call

--------------------------------------------------------------------------
(* Generic helpers *)

Range(s) == {s[i] : i \in 1..Len(s)}

SeqsUpTo(S, n) == UNION {[1..m -> S] : m \in 0..n}

Count(s, v) == Cardinality({i \in 1..Len(s) : s[i] = v})

IsSorted(s) == \A i \in 1..(Len(s) - 1) : s[i] <= s[i + 1]

IsPermutation(s, t) ==
    /\ Len(s) = Len(t)
    /\ \A v \in Range(s) \cup Range(t) : Count(s, v) = Count(t, v)

Swap(s, i, j) == [s EXCEPT ![i] = s[j], ![j] = s[i]]

(* A loop that runs its body n times: the body is applied n times in      *)
(* order; the evaluation splits the n iterations in two halves so that    *)
(* long loops need only logarithmic nesting, and every intermediate state *)
(* is evaluated once.                                                     *)
RECURSIVE Iterate(_, _, _)
Iterate(Body(_), st, n) ==
    IF n = 0 THEN st
    ELSE CHOOSE result \in
             {IF n = 1 THEN Body(s)
              ELSE Iterate(Body, Iterate(Body, s, n \div 2), n - (n \div 2)) : s \in {st}} :
             TRUE

--------------------------------------------------------------------------
(* algorithms/sorting.rs *)

INSERTION_LIMIT == 20     \* length < 20: insertion sort
MERGE_LIMIT == 1000       \* length >= 1000: merge sort

(* while j > 0 && arr[j-1] > arr[j] { swap; j -= 1 }   (1-based here)      *)
InsertionGreaterMutant(a, b) == a < b

InsertionGreater(a, b) == a > b

RECURSIVE InsertionInner(_, _)
InsertionInner(arr, j) ==
    IF j > 1 /\ InsertionGreater(arr[j - 1], arr[j])
    THEN InsertionInner(Swap(arr, j, j - 1), j - 1)
    ELSE arr

(* for i in 1..arr.len() *)
RECURSIVE InsertionOuter(_, _)
InsertionOuter(arr, i) ==
    IF i > Len(arr) THEN arr
    ELSE InsertionOuter(InsertionInner(arr, i), i + 1)

insertion_sort(arr) == InsertionOuter(arr, 2)

(* One iteration of the three merge loops of merge_sort: while both halves *)
(* have elements take left[i] when left[i] <= right[j], else right[j];     *)
(* afterwards copy what remains of left, then of right.                   *)
MergeTakesLeft(l, r) == l <= r

MergeStep(left, right, st) ==
    IF st.i <= Len(left) /\ st.j <= Len(right)
    THEN IF MergeTakesLeft(left[st.i], right[st.j])
         THEN [i |-> st.i + 1, j |-> st.j, arr |-> Append(st.arr, left[st.i])]
         ELSE [i |-> st.i, j |-> st.j + 1, arr |-> Append(st.arr, right[st.j])]
    ELSE IF st.i <= Len(left)
         THEN [i |-> st.i + 1, j |-> st.j, arr |-> Append(st.arr, left[st.i])]
         ELSE [i |-> st.i, j |-> st.j + 1, arr |-> Append(st.arr, right[st.j])]

RECURSIVE merge_sort(_)
merge_sort(arr) ==
    IF Len(arr) <= 1 THEN arr
    ELSE LET len   == Len(arr)
             mid   == len \div 2
             left  == merge_sort(SubSeq(arr, 1, mid))
             right == merge_sort(SubSeq(arr, mid + 1, len))
             Step(st) == MergeStep(left, right, st)
         IN  IF left = left /\ right = right
             THEN Iterate(Step, [i |-> 1, j |-> 1, arr |-> <<>>], len).arr
             ELSE arr

(* values.sort_by(|a, b| a.partial_cmp(b).unwrap_or(Equal)): the standard  *)
(* library's stable merge sort.  Modelled bottom-up: runs of width 1, 2,   *)
(* 4, ... are merged pairwise, an element of the right run being taken    *)
(* only when the comparator says it is Less than the left one.            *)
SortByStep(left, right, st) ==
    IF st.i <= Len(left) /\ st.j <= Len(right)
    THEN IF right[st.j] < left[st.i]
         THEN [i |-> st.i, j |-> st.j + 1, arr |-> Append(st.arr, right[st.j])]
         ELSE [i |-> st.i + 1, j |-> st.j, arr |-> Append(st.arr, left[st.i])]
    ELSE IF st.i <= Len(left)
         THEN [i |-> st.i + 1, j |-> st.j, arr |-> Append(st.arr, left[st.i])]
         ELSE [i |-> st.i, j |-> st.j + 1, arr |-> Append(st.arr, right[st.j])]

SortByMerge(left, right) ==
    LET Step(st) == SortByStep(left, right, st)
    IN  Iterate(Step, [i |-> 1, j |-> 1, arr |-> <<>>], Len(left) + Len(right)).arr

Min2(a, b) == IF a < b THEN a ELSE b

SortByPass(arr, width) ==
    LET n == Len(arr)
        Step(st) ==
            LET lo  == st.lo
                mid == Min2(lo + width - 1, n)
                hi  == Min2(lo + 2 * width - 1, n)
                m   == SortByMerge(SubSeq(arr, lo, mid), SubSeq(arr, mid + 1, hi))
            IN  IF lo > n THEN st
                ELSE [lo |-> hi + 1, arr |-> st.arr \o m]
    IN  Iterate(Step, [lo |-> 1, arr |-> <<>>], (n + 2 * width - 1) \div (2 * width)).arr

RECURSIVE SortByRuns(_, _)
SortByRuns(arr, width) ==
    IF width >= Len(arr) THEN arr
    ELSE LET next == SortByPass(arr, width)
         IN  IF next = next THEN SortByRuns(next, 2 * width) ELSE arr

slice_sort_by(arr) == SortByRuns(arr, 1)

specialized_sort_f64(values) ==
    LET length == Len(values) IN
    IF length <= 1 THEN values
    ELSE IF length < INSERTION_LIMIT THEN insertion_sort(values)
    ELSE IF length < MERGE_LIMIT THEN slice_sort_by(values)
    ELSE merge_sort(values)

(* Buffers the sort is called with: every buffer of up to MaxLen values,   *)
(* and generated unsorted buffers with repeated values at the lengths     *)
(* around the two dispatch limits.                                        *)
GenBuffer(n, a, m) == [i \in 1..n |-> (i * a) % m]

DispatchLens == {INSERTION_LIMIT - 1, INSERTION_LIMIT, MERGE_LIMIT - 1, MERGE_LIMIT}

SmallBuffers == SeqsUpTo(0..MaxVal, MaxLen)

SortInputs ==
    SmallBuffers \cup {GenBuffer(n, 7, 11) : n \in DispatchLens}
                 \cup {GenBuffer(n, 13, 101) : n \in DispatchLens}

Idle ==
    /\ kernel = "none"
    /\ input = <<>>
    /\ output = <<>>
    /\ prev = NoCall
    /\ km = KmIdle

(* One call of specialized_sort_f64 on a fresh buffer. *)
CallSpecializedSort ==
    /\ kernel = "none"
    /\ \E values \in SortInputs :
          /\ kernel' = "specialized_sort_f64"
          /\ input' = values
          /\ output' = specialized_sort_f64(values)
    /\ UNCHANGED <<prev, km>>

SortNext == CallSpecializedSort

SpecSort == Idle /\ [][SortNext]_vars

(* C1: specialized_sort_f64 returns a non-decreasing permutation of its    *)
(* input (same length, same count of every value) on every dispatch       *)
(* branch: length <= 1, < 20, 20..999 and >= 1000.                        *)
C1_SortedPermutation ==
    kernel = "specialized_sort_f64" =>
        /\ IsSorted(output)
        /\ IsPermutation(input, output)

(* C1 witness: an unsorted buffer of exactly MERGE_LIMIT values, the first *)
(* length of the merge_sort branch, has been sorted.                      *)
C1_Witness ==
    /\ kernel = "specialized_sort_f64"
    /\ Len(input) = MERGE_LIMIT
    /\ ~IsSorted(input)
    /\ IsSorted(output)

--------------------------------------------------------------------------
(* data_structures/compression.rs: run-length encoding *)

(* A text (&str) is the sequence of its UTF-8 bytes.  Results of fallible  *)
(* kernels: Ok(v), Err(message) and a panic.                              *)
Ok(v) == [status |-> "ok", value |-> v]
Err == [status |-> "err", value |-> <<>>]
Panic == [status |-> "panic", value |-> <<>>]

Rep(b, n) == [i \in 1..n |-> b]

RLE_MAX_COUNT == 255      \* count < 255: a run holds at most 255 bytes

(* The run goes on while the byte repeats and the u8 count is below 255.   *)
RleRunContinuesMutant(byte, current_char, count) == byte = current_char

RleRunContinues(byte, current_char, count) ==
    byte = current_char /\ count < RLE_MAX_COUNT

(* Body of: for &byte in bytes.iter().skip(1) *)
RleCompressStepMutant(bytes, st) ==
    LET byte == bytes[st.i] IN
    IF RleRunContinues(byte, st.current_char, st.count)
    THEN [st EXCEPT !.i = st.i + 1, !.count = (st.count + 1) % 256]
    ELSE [i |-> st.i + 1,
          current_char |-> byte,
          count |-> st.count,
          compressed |-> st.compressed \o <<st.count, st.current_char>>]

RleCompressStep(bytes, st) ==
    LET byte == bytes[st.i] IN
    IF RleRunContinues(byte, st.current_char, st.count)
    THEN [st EXCEPT !.i = st.i + 1, !.count = (st.count + 1) % 256]
    ELSE [i |-> st.i + 1,
          current_char |-> byte,
          count |-> 1,
          compressed |-> st.compressed \o <<st.count, st.current_char>>]

(* count is a u8 (it is pushed into the Vec<u8>), hence the % 256 above.   *)
rle_compress(text) ==
    IF text = <<>> THEN <<>>
    ELSE LET Step(st) == RleCompressStep(text, st)
             last == Iterate(Step,
                             [i |-> 2, current_char |-> text[1], count |-> 1,
                              compressed |-> <<>>],
                             Len(text) - 1)
         IN  last.compressed \o <<last.count, last.current_char>>

(* String::from_utf8: a scan over the bytes, `need` counting the          *)
(* continuation bytes still owed to the current lead byte.  (The extra     *)
(* range checks on the byte after E0, ED, F0 and F4 are not modelled: no   *)
(* input of the model contains those lead bytes.)                         *)
Utf8Step(bytes, st) ==
    LET b == bytes[st.i] IN
    IF ~st.valid THEN st
    ELSE IF st.need > 0
         THEN IF b >= 128 /\ b <= 191
              THEN [st EXCEPT !.i = st.i + 1, !.need = st.need - 1]
              ELSE [st EXCEPT !.valid = FALSE]
    ELSE IF b < 128 THEN [st EXCEPT !.i = st.i + 1]
    ELSE IF b >= 194 /\ b <= 223 THEN [st EXCEPT !.i = st.i + 1, !.need = 1]
    ELSE IF b >= 224 /\ b <= 239 THEN [st EXCEPT !.i = st.i + 1, !.need = 2]
    ELSE IF b >= 240 /\ b <= 244 THEN [st EXCEPT !.i = st.i + 1, !.need = 3]
    ELSE [st EXCEPT !.valid = FALSE]

from_utf8(bytes) ==
    LET Step(st) == Utf8Step(bytes, st)
        last == Iterate(Step, [i |-> 1, need |-> 0, valid |-> TRUE], Len(bytes))
    IN  IF last.valid /\ last.need = 0 THEN Ok(bytes) ELSE Err

(* Body of: for i in (0..length).step_by(2) *)
RleDecompressStep(bytes_vec, st) ==
    LET count == bytes_vec[st.i]
        byte  == bytes_vec[st.i + 1]
    IN  [i |-> st.i + 2, decompressed |-> st.decompressed \o Rep(byte, count)]

RleOddLengthRejected(length) == length % 2 # 0

rle_decompress(bytes_vec) ==
    LET length == Len(bytes_vec) IN
    IF length = 0 THEN Ok(<<>>)
    ELSE IF RleOddLengthRejected(length) THEN Err
    ELSE LET Step(st) == RleDecompressStep(bytes_vec, st)
             last == Iterate(Step, [i |-> 1, decompressed |-> <<>>], length \div 2)
         IN  from_utf8(last.decompressed)

--------------------------------------------------------------------------
(* data_structures/compression.rs: Huffman coding *)

None == <<>>
Some(x) == <<x>>

(* struct HuffmanNode { freq, byte, left, right } *)
new_leaf(byte, freq) ==
    [freq |-> freq, byte |-> Some(byte), left |-> None, right |-> None]

new_internal(freq, left, right) ==
    [freq |-> freq, byte |-> None, left |-> Some(left), right |-> Some(right)]

is_leaf(node) == node.left = None /\ node.right = None

(* The heap holds Reverse<HuffmanNode>.  HuffmanNode::partial_cmp is       *)
(* other.freq.partial_cmp(&self.freq), so node x <= node y iff             *)
(* y.freq <= x.freq; Reverse(a) <= Reverse(b) is b.0 <= a.0, which is      *)
(* a.freq <= b.freq: the two reversals cancel and the BinaryHeap, a        *)
(* max-heap, pops the node of the greatest frequency first.               *)
HeapLe(a, b) == a.freq <= b.freq

(* std BinaryHeap, positions 0-based as in the library, data 1-based.      *)
At(data, pos) == data[pos + 1]

Put(data, pos, x) == [data EXCEPT ![pos + 1] = x]

(* sift_up(start, pos): the element `elt` of the hole at pos moves up      *)
(* while it is not <= its parent.                                         *)
RECURSIVE SiftUp(_, _, _, _)
SiftUp(data, elt, start, pos) ==
    IF pos > start
    THEN LET parent == (pos - 1) \div 2 IN
         IF HeapLe(elt, At(data, parent))
         THEN Put(data, pos, elt)
         ELSE SiftUp(Put(data, pos, At(data, parent)), elt, start, parent)
    ELSE Put(data, pos, elt)

heap_push(data, item) == SiftUp(Append(data, item), item, 0, Len(data))

(* sift_down_to_bottom(0): the hole goes down to a leaf along the greater  *)
(* child (the right one on a tie), then the element is sifted up again.   *)
RECURSIVE SiftDownToBottom(_, _, _, _)
SiftDownToBottom(data, elt, pos, end) ==
    LET child == 2 * pos + 1 IN
    IF end >= 2 /\ child <= end - 2
    THEN LET c == IF HeapLe(At(data, child), At(data, child + 1))
                  THEN child + 1 ELSE child
         IN  SiftDownToBottom(Put(data, pos, At(data, c)), elt, c, end)
    ELSE IF child = end - 1
         THEN SiftUp(Put(data, pos, At(data, child)), elt, 0, child)
         ELSE SiftUp(data, elt, 0, pos)

(* pop(): [item |-> the root, data |-> the heap that is left]; the heap    *)
(* must not be empty.                                                     *)
heap_pop(data) ==
    LET last == data[Len(data)]
        rest == SubSeq(data, 1, Len(data) - 1)
    IN  IF rest = <<>>
        THEN [item |-> last, data |-> rest]
        ELSE [item |-> rest[1],
              data |-> SiftDownToBottom(rest, last, 0, Len(rest))]

(* for (&byte, &freq) in &frequencies { heap.push(Reverse(new_leaf)) }     *)
(* `order` is the order in which the HashMap yields its keys.             *)
RECURSIVE PushLeaves(_, _, _, _)
PushLeaves(data, frequencies, order, n) ==
    IF n > Len(order) THEN data
    ELSE PushLeaves(heap_push(data, new_leaf(order[n], frequencies[order[n]])),
                    frequencies, order, n + 1)

(* while heap.len() > 1 { left = pop; right = pop; push(parent) }          *)
MergeTwo(left, right) == new_internal(left.freq + right.freq, left, right)

RECURSIVE MergeLoop(_)
MergeLoop(data) ==
    IF Len(data) > 1
    THEN LET p1 == heap_pop(data)
             p2 == heap_pop(p1.data)
         IN  MergeLoop(heap_push(p2.data, MergeTwo(p1.item, p2.item)))
    ELSE data

(* The heap after the merge loop: one node, or none for an empty table.   *)
BuildTree(frequencies, order) ==
    MergeLoop(PushLeaves(<<>>, frequencies, order, 1))

(* build_codes: the set of (byte, code) pairs, left = false, right = true *)
RECURSIVE build_codes(_, _)
build_codes(node, code) ==
    IF node.byte # None
    THEN {<<node.byte[1], code>>}
    ELSE build_codes(node.left[1], Append(code, FALSE))
           \cup build_codes(node.right[1], Append(code, TRUE))

CodeOf(codes, byte) == (CHOOSE c \in codes : c[1] = byte)[2]

(* let mut frequencies = HashMap::new(); *entry(byte).or_insert(0) += 1   *)
Frequencies(bytes) == [b \in Range(bytes) |-> Count(bytes, b)]

(* The orders in which a HashMap with the key set S may be iterated: the   *)
(* order depends on the keys of the map's RandomState, which differ from   *)
(* one map to the next.                                                   *)
IterationOrders(S) == {p \in [1..Cardinality(S) -> S] : Range(p) = S}

RECURSIVE EncodeBits(_, _, _)
EncodeBits(bytes, codes, n) ==
    IF n > Len(bytes) THEN <<>>
    ELSE CodeOf(codes, bytes[n]) \o EncodeBits(bytes, codes, n + 1)

Pow2(n) == CASE n = 0 -> 1 [] n = 1 -> 2 [] n = 2 -> 4 [] n = 3 -> 8
             [] n = 4 -> 16 [] n = 5 -> 32 [] n = 6 -> 64 [] n = 7 -> 128

(* byte |= 1 << (7 - i) for every set bit i of the chunk *)
RECURSIVE PackChunk(_, _)
PackChunk(chunk, i) ==
    IF i > Len(chunk) THEN 0
    ELSE (IF chunk[i] THEN Pow2(7 - (i - 1)) ELSE 0) + PackChunk(chunk, i + 1)

(* for chunk in encoded_bits.chunks(8) *)
RECURSIVE PackBits(_)
PackBits(bits) ==
    IF bits = <<>> THEN <<>>
    ELSE LET n == Min2(8, Len(bits)) IN
         <<PackChunk(SubSeq(bits, 1, n), 1)>> \o PackBits(SubSeq(bits, n + 1, Len(bits)))

(* freq.to_be_bytes() of a u32 *)
to_be_bytes(freq) ==
    <<(freq \div 16777216) % 256, (freq \div 65536) % 256,
      (freq \div 256) % 256, freq % 256>>

from_be_bytes(b) == b[1] * 16777216 + b[2] * 65536 + b[3] * 256 + b[4]

RECURSIVE HeaderEntries(_, _, _)
HeaderEntries(frequencies, order, n) ==
    IF n > Len(order) THEN <<>>
    ELSE <<order[n]>> \o to_be_bytes(frequencies[order[n]])
           \o HeaderEntries(frequencies, order, n + 1)

huffman_compress(text, order) ==
    IF text = <<>> THEN <<>>
    ELSE LET frequencies == Frequencies(text)
             root == BuildTree(frequencies, order)[1]
             codes == build_codes(root, <<>>)
             encoded_bytes == PackBits(EncodeBits(text, codes, 1))
             header == <<Cardinality(DOMAIN frequencies) % 256>>
                          \o HeaderEntries(frequencies, order, 1)
         IN  header \o encoded_bytes

(* Header parse of huffman_decompress: num_chars = bytes_vec[0], then      *)
(* num_chars entries of one byte and a 4-byte big-endian frequency, each   *)
(* read by plain indexing: an index past the end of bytes_vec panics.      *)
(* `i` is the 0-based index of the source.                                *)
RECURSIVE ParseEntries(_, _, _)
ParseEntries(bytes_vec, st, left) ==
    IF left = 0 \/ st.panic THEN st
    ELSE IF st.i + 4 >= Len(bytes_vec)
         THEN [st EXCEPT !.panic = TRUE]
         ELSE LET byte == bytes_vec[st.i + 1]
                  freq == from_be_bytes(SubSeq(bytes_vec, st.i + 2, st.i + 5))
                  f    == st.frequencies
              IN  ParseEntries(bytes_vec,
                      [i |-> st.i + 5,
                       frequencies |-> [b \in (DOMAIN f) \cup {byte} |->
                                           IF b = byte THEN freq ELSE f[b]],
                       panic |-> FALSE],
                      left - 1)

ParseHeader(bytes_vec) ==
    ParseEntries(bytes_vec, [i |-> 1, frequencies |-> <<>>, panic |-> FALSE],
                 bytes_vec[1])

(* One bit of the decode loop: step to the right or left child (unwrap of  *)
(* a missing child panics), emit the byte of a leaf and go back to root.  *)
DecodeStep(bytes_vec, first, root, st) ==
    IF st.panic THEN st
    ELSE LET byte == bytes_vec[first + (st.k \div 8) + 1]
             bit  == (byte \div Pow2(7 - (st.k % 8))) % 2 = 1
             next == IF bit THEN st.node.right ELSE st.node.left
         IN  IF next = None
             THEN [st EXCEPT !.panic = TRUE]
             ELSE IF is_leaf(next[1])
                  THEN [k |-> st.k + 1, node |-> root, panic |-> FALSE,
                        decoded |-> Append(st.decoded, next[1].byte[1])]
                  ELSE [st EXCEPT !.k = st.k + 1, !.node = next[1]]

(* `order` is the iteration order of the HashMap rebuilt from the header. *)
huffman_decompress(bytes_vec, order) ==
    LET length == Len(bytes_vec) IN
    IF length = 0 THEN Ok(<<>>)
    ELSE LET header == ParseHeader(bytes_vec) IN
         IF header.panic THEN Panic
         ELSE LET heap == BuildTree(header.frequencies, order) IN
              IF heap = <<>> THEN Panic      \* heap.pop().unwrap() on None
              ELSE LET root == heap[1]
                       Step(st) == DecodeStep(bytes_vec, header.i, root, st)
                       last == Iterate(Step,
                                   [k |-> 0, node |-> root, panic |-> FALSE,
                                    decoded |-> <<>>],
                                   8 * (length - header.i))
                   IN  IF last.panic THEN Panic ELSE from_utf8(last.decoded)

(* Texts: up to MaxLen characters of "a", "b" and the two-byte "e-acute",  *)
(* and runs around the 255 limit of a run-length count.                   *)
Chars == {<<97>>, <<98>>, <<195, 169>>}

RECURSIVE Flatten(_)
Flatten(ss) == IF ss = <<>> THEN <<>> ELSE Head(ss) \o Flatten(Tail(ss))

SmallTexts == {Flatten(cs) : cs \in SeqsUpTo(Chars, MaxLen)}

LongRuns ==
    {Rep(97, n) \o t : n \in {RLE_MAX_COUNT, RLE_MAX_COUNT + 1, 2 * RLE_MAX_COUNT + 1},
                       t \in {<<>>, <<98>>, <<195, 169>>}}

Call(k, in, out) ==
    /\ kernel' = k
    /\ input' = in
    /\ output' = out
    /\ prev' = [kernel |-> kernel, input |-> input, output |-> output]
    /\ UNCHANGED km

CallRleCompress ==
    /\ kernel = "none"
    /\ \E text \in SmallTexts \cup LongRuns :
          Call("rle_compress", text, Ok(rle_compress(text)))

(* The payload of the last rle_compress is handed to rle_decompress.      *)
CallRleDecompressPayload ==
    /\ kernel = "rle_compress"
    /\ Call("rle_decompress", output.value, rle_decompress(output.value))

RleNext == CallRleCompress \/ CallRleDecompressPayload

SpecRle == Idle /\ [][RleNext]_vars

(* C2: rle_decompress(rle_compress(s)) succeeds and returns exactly s, for *)
(* the empty text, runs longer than 255 bytes and multi-byte text too.    *)
C2_RleRoundTrip ==
    (kernel = "rle_decompress" /\ prev.kernel = "rle_compress") =>
        output = Ok(prev.input)

(* C2 witness: a text with a run of more than 255 equal bytes followed by  *)
(* a two-byte character has been compressed and decompressed.             *)
C2_Witness ==
    /\ kernel = "rle_decompress"
    /\ prev.kernel = "rle_compress"
    /\ Len(prev.input) > RLE_MAX_COUNT + 1
    /\ prev.input[Len(prev.input)] = 169
    /\ output.status = "ok"

--------------------------------------------------------------------------
(* Huffman round trip and malformed payloads *)

DecodeOrders(bytes_vec) ==
    IF bytes_vec = <<>> THEN {<<>>}
    ELSE IF ParseHeader(bytes_vec).panic THEN {<<>>}
    ELSE IterationOrders(DOMAIN ParseHeader(bytes_vec).frequencies)

(* Payloads handed to huffman_decompress directly: outputs of              *)
(* huffman_compress, the same cut short at every length, and the same     *)
(* with the declared symbol count set to 0 or raised by one.              *)
PayloadTexts == {Flatten(cs) : cs \in SeqsUpTo(Chars, MaxPayloadChars)} \ {<<>>}

ValidPayloads ==
    UNION {{huffman_compress(t, o) : o \in IterationOrders(Range(t))} : t \in PayloadTexts}

TruncatedPayloads ==
    UNION {{SubSeq(p, 1, n) : n \in 1..(Len(p) - 1)} : p \in ValidPayloads}

RecountedPayloads ==
    UNION {{[p EXCEPT ![1] = c] : c \in {0, p[1] + 1}} : p \in ValidPayloads}

HuffmanPayloads == ValidPayloads \cup TruncatedPayloads \cup RecountedPayloads

RlePayloads == SeqsUpTo({0, 2, 97, 195}, MaxPayloadLen)

CallHuffmanCompress ==
    /\ kernel = "none"
    /\ \E text \in SmallTexts :
          \E order \in IterationOrders(Range(text)) :
              Call("huffman_compress", text, Ok(huffman_compress(text, order)))

(* The payload of the last huffman_compress is handed to                  *)
(* huffman_decompress, whose HashMap has an iteration order of its own.   *)
CallHuffmanDecompressPayload ==
    /\ kernel = "huffman_compress"
    /\ \E order \in DecodeOrders(output.value) :
          Call("huffman_decompress", output.value,
               huffman_decompress(output.value, order))

HuffmanNext == CallHuffmanCompress \/ CallHuffmanDecompressPayload

SpecHuffman == Idle /\ [][HuffmanNext]_vars

(* C3: for every non-empty text s, huffman_decompress(huffman_compress(s)) *)
(* succeeds and returns exactly s.                                        *)
C3_HuffmanRoundTrip ==
    (/\ kernel = "huffman_decompress"
     /\ prev.kernel = "huffman_compress"
     /\ prev.input # <<>>) =>
        output = Ok(prev.input)

(* Decoders called on arbitrary payloads. *)
CallRleDecompress ==
    /\ kernel = "none"
    /\ \E bytes \in RlePayloads :
          Call("rle_decompress", bytes, rle_decompress(bytes))

CallHuffmanDecompress ==
    /\ kernel = "none"
    /\ \E bytes \in HuffmanPayloads :
          \E order \in DecodeOrders(bytes) :
              Call("huffman_decompress", bytes, huffman_decompress(bytes, order))

DecodeNext == CallRleDecompress \/ CallHuffmanDecompress

SpecDecode == Idle /\ [][DecodeNext]_vars

(* A Huffman header is malformed when it declares more 5-byte entries than *)
(* the payload holds (a truncated entry included) or declares no symbol.  *)
HeaderMalformed(bytes) ==
    /\ bytes # <<>>
    /\ \/ 1 + 5 * bytes[1] > Len(bytes)
       \/ bytes[1] = 0 /\ Len(bytes) > 1

(* C5: malformed payloads are reported as error values and never crash:    *)
(* rle_decompress on an odd-length payload returns an error, and           *)
(* huffman_decompress on a payload with a malformed header returns an     *)
(* error instead of indexing out of bounds or unwrapping a missing node.  *)
C5_MalformedReported ==
    /\ (kernel = "rle_decompress" /\ Len(input) % 2 = 1) => output.status = "err"
    /\ (kernel = "huffman_decompress" /\ HeaderMalformed(input)) =>
           output.status = "err"

--------------------------------------------------------------------------
(* data_structures/machine_learning.rs: kmeans_clustering_f64              *)
(*                                                                         *)
(* A coordinate pair of a centroid is kept as the exact fraction           *)
(* (sx / c, sy / c): a seeded or reseeded centroid is a data point         *)
(* (c = 1), an updated one is the sum of its points over their count.      *)
(* js_sys::Math::random() returns any value of [0, 1): every index it can  *)
(* select is a choice of the action.                                      *)

KmPointSet == {<<0, 0>>, <<1, 0>>, <<0, 2>>}

KmData == SeqsUpTo(KmPointSet, MaxPoints)

Centroid(p) == [sx |-> p[1], sy |-> p[2], c |-> 1]

(* dx * dx + dy * dy for point p and centroid ce, as numerator over c * c *)
DistNum(p, ce) ==
    (p[1] * ce.c - ce.sx) * (p[1] * ce.c - ce.sx)
      + (p[2] * ce.c - ce.sy) * (p[2] * ce.c - ce.sy)

(* dist(p, a) < dist(p, b) *)
DistLess(p, a, b) == DistNum(p, a) * b.c * b.c < DistNum(p, b) * a.c * a.c

(* if num_points < k { Err }  if k == 0 { Err } *)
KmRejects(num_points, k) == num_points < k \/ k = 0

(* The call: validation, then the locals before the seeding.              *)
KmStart ==
    /\ km.pc = "idle"
    /\ kernel = "none"
    /\ \E points \in KmData, k \in 0..(MaxPoints + 1), max_iterations \in 0..MaxIterations :
          km' = IF KmRejects(Len(points), k)
                THEN [pc |-> "done", points |-> points, k |-> k,
                      max_iterations |-> max_iterations, result |-> Err]
                ELSE [pc |-> "seed", points |-> points, k |-> k,
                      max_iterations |-> max_iterations, centroids |-> <<>>]
    /\ UNCHANGED <<kernel, input, output, prev>>

(* The indices the k-means++ draw can select: target = random * sum is in  *)
(* [0, sum); the loop takes the first i with target - d[0] - .. - d[i]     *)
(* <= 0, so index 0 (target = 0) and every index of positive distance.    *)
RECURSIVE MinDistIsZero(_, _, _)
MinDistIsZero(p, centroids, j) ==
    IF j > Len(centroids) THEN FALSE
    ELSE DistNum(p, centroids[j]) = 0 \/ MinDistIsZero(p, centroids, j + 1)

SeedChoices(points, centroids) ==
    {1} \cup {i \in 1..Len(points) : ~MinDistIsZero(points[i], centroids, 1)}

(* first_index = (random * num_points) as usize; then `for _ in 1..k`.     *)
KmSeed ==
    /\ km.pc = "seed"
    /\ \E index \in IF km.centroids = <<>> THEN 1..Len(km.points)
                    ELSE SeedChoices(km.points, km.centroids) :
          LET centroids == Append(km.centroids, Centroid(km.points[index])) IN
          km' = IF Len(centroids) < km.k
                THEN [km EXCEPT !.centroids = centroids]
                ELSE [pc |-> IF 0 < km.max_iterations THEN "assign" ELSE "done",
                      points |-> km.points, k |-> km.k,
                      max_iterations |-> km.max_iterations,
                      centroids |-> centroids,
                      assignments |-> [i \in 1..Len(km.points) |-> 0],
                      converged |-> FALSE, iteration |-> 0,
                      passes |-> 0, changed |-> FALSE]
    /\ UNCHANGED <<kernel, input, output, prev>>

(* for j in 0..k { if dist < min_dist { min_dist = dist; min_cluster = j } } *)
(* min_dist starts at f64::MAX: cluster 0 is taken first, a later one only  *)
(* when strictly nearer.  Cluster ids are 0-based as in the source.        *)
RECURSIVE MinClusterMutant(_, _, _, _)
MinClusterMutant(p, centroids, j, best) ==
    IF j > Len(centroids) THEN best - 1
    ELSE IF ~DistLess(p, centroids[best], centroids[j])
         THEN MinClusterMutant(p, centroids, j + 1, j)
         ELSE MinClusterMutant(p, centroids, j + 1, best)

RECURSIVE MinCluster(_, _, _, _)
MinCluster(p, centroids, j, best) ==
    IF j > Len(centroids) THEN best - 1
    ELSE IF DistLess(p, centroids[j], centroids[best])
         THEN MinCluster(p, centroids, j + 1, j)
         ELSE MinCluster(p, centroids, j + 1, best)

(* The assignment pass and the convergence test: if !changed { converged   *)
(* = true; break }.                                                        *)
ConvergedAfter(changed) == ~changed

KmAssign ==
    /\ km.pc = "assign"
    /\ LET assignments == [i \in 1..Len(km.points) |->
                              MinCluster(km.points[i], km.centroids, 2, 1)]
           changed == assignments # km.assignments
       IN  km' = [km EXCEPT !.assignments = assignments,
                            !.changed = changed,
                            !.passes = km.passes + 1,
                            !.converged = ConvergedAfter(changed),
                            !.pc = IF ConvergedAfter(changed) THEN "done" ELSE "update"]
    /\ UNCHANGED <<kernel, input, output, prev>>

Members(assignments, j) == {i \in 1..Len(assignments) : assignments[i] = j}

RECURSIVE SumCoord(_, _, _)
SumCoord(points, idx, d) ==
    IF idx = {} THEN 0
    ELSE LET i == CHOOSE x \in idx : TRUE
         IN  points[i][d] + SumCoord(points, idx \ {i}, d)

(* The centroid update: the mean of the members, or, for an empty cluster, *)
(* the data point at random_index; then iteration += 1 and the loop test.  *)
LoopContinuesMutant(converged, iteration, max_iterations) ==
    ~converged /\ iteration <= max_iterations

LoopContinues(converged, iteration, max_iterations) ==
    ~converged /\ iteration < max_iterations

KmUpdate ==
    /\ km.pc = "update"
    /\ \E random_index \in [1..km.k -> 1..Len(km.points)] :
          LET new_centroids ==
                  [j \in 1..km.k |->
                      LET m == Members(km.assignments, j - 1) IN
                      IF m # {}
                      THEN [sx |-> SumCoord(km.points, m, 1),
                            sy |-> SumCoord(km.points, m, 2),
                            c  |-> Cardinality(m)]
                      ELSE Centroid(km.points[random_index[j]])]
          IN  /\ \A j \in 1..km.k :
                    Members(km.assignments, j - 1) # {} => random_index[j] = 1
              /\ km' = [km EXCEPT
                          !.centroids = new_centroids,
                          !.iteration = km.iteration + 1,
                          !.pc = IF LoopContinues(km.converged, km.iteration + 1,
                                                  km.max_iterations)
                                 THEN "assign" ELSE "done"]
    /\ UNCHANGED <<kernel, input, output, prev>>

KmNext == KmStart \/ KmSeed \/ KmAssign \/ KmUpdate

SpecKmeans == Idle /\ [][KmNext]_vars

(* The call runs to completion: no step of it waits for anything.         *)
SpecKmeansFair == SpecKmeans /\ WF_vars(KmNext)

KmReturned == km.pc = "done" /\ "result" \notin DOMAIN km

(* C8: for every non-empty set of points and max_iterations >= 1,          *)
(* k-means with k = 1 returns converged = true, iterations = 1, all        *)
(* assignments 0 and the single centroid equal to the mean of the data.   *)
C8_SingleClusterMean ==
    (KmReturned /\ km.k = 1 /\ km.max_iterations >= 1) =>
        LET n == Len(km.points)
            all == 1..n
        IN  /\ km.converged
            /\ km.iteration = 1
            /\ \A i \in all : km.assignments[i] = 0
            /\ Len(km.centroids) = 1
            /\ km.centroids[1].sx * n = SumCoord(km.points, all, 1) * km.centroids[1].c
            /\ km.centroids[1].sy * n = SumCoord(km.points, all, 2) * km.centroids[1].c

(* C9: the assignment/update loop terminates; the reported iterations      *)
(* never exceeds max_iterations; converged is true exactly when the last   *)
(* assignment pass changed no assignment; and converged = false implies   *)
(* iterations = max_iterations.                                           *)
C9_LoopTerminates ==
    /\ [](KmReturned =>
            /\ km.iteration <= km.max_iterations
            /\ km.converged <=> (km.passes > 0 /\ ~km.changed)
            /\ ~km.converged => km.iteration = km.max_iterations)
    /\ (km.pc \in {"seed", "assign", "update"}) ~> (km.pc = "done")

(* C9 witness: a call has returned without converging after using up all   *)
(* of its max_iterations >= 2 passes, each of which changed an assignment. *)
C9_Witness ==
    /\ KmReturned
    /\ ~km.converged
    /\ km.max_iterations >= 2
    /\ km.iteration = km.max_iterations
    /\ km.passes = km.max_iterations
    /\ km.changed

--------------------------------------------------------------------------
(* algorithms/sorting.rs: radix_sort_u32 *)

Pow256(p) == CASE p = 0 -> 1 [] p = 1 -> 256 [] p = 2 -> 65536 [] p = 3 -> 16777216

(* ((val >> shift) & 0xFF) for shift = 8 * p *)
ByteOfMutant(val, p) == val % 256

ByteOf(val, p) == (val \div Pow256(p)) % 256

(* One counting-sort pass: count the bytes, turn the counts into start     *)
(* positions, then place every value at the next position of its byte.    *)
RadixCountStep(values, p, st) ==
    LET byte == ByteOf(values[st.i], p)
    IN  [i |-> st.i + 1, count |-> [st.count EXCEPT ![byte] = @ + 1]]

RadixPrefixStep(st) ==
    [i |-> st.i + 1, total |-> st.total + st.count[st.i],
     count |-> [st.count EXCEPT ![st.i] = st.total]]

RadixPlaceStep(values, p, st) ==
    LET val  == values[st.i]
        byte == ByteOf(val, p)
        pos  == st.count[byte]
    IN  [i |-> st.i + 1,
         temp |-> [st.temp EXCEPT ![pos + 1] = val],
         count |-> [st.count EXCEPT ![byte] = @ + 1]]

RadixPass(values, p) ==
    LET n == Len(values)
        CountStep(st) == RadixCountStep(values, p, st)
        counted == Iterate(CountStep, [i |-> 1, count |-> [b \in 0..255 |-> 0]], n)
        starts == Iterate(RadixPrefixStep,
                          [i |-> 0, total |-> 0, count |-> counted.count], 256)
        PlaceStep(st) == RadixPlaceStep(values, p, st)
    IN  Iterate(PlaceStep,
                [i |-> 1, temp |-> [k \in 1..n |-> 0], count |-> starts.count], n).temp

(* for shift in (0..32).step_by(8) *)
radix_sort_u32(values) ==
    IF Len(values) <= 1 THEN values
    ELSE RadixPass(RadixPass(RadixPass(RadixPass(values, 0), 1), 2), 3)

RadixKeys == {0, 1, 256, 65537, 2147483647}

RadixInputs == SeqsUpTo(RadixKeys, 2)

--------------------------------------------------------------------------
(* The same kernel called twice on the same input *)

CallRadixSort ==
    /\ kernel = "none"
    /\ \E values \in RadixInputs :
          Call("radix_sort_u32", values, radix_sort_u32(values))

CallSort ==
    /\ kernel = "none"
    /\ \E values \in SmallBuffers :
          Call("specialized_sort_f64", values, specialized_sort_f64(values))

(* The second call: the same kernel on the same input.  The frequency     *)
(* table of huffman_compress is a new HashMap with keys of its own.       *)
CallAgain ==
    /\ kernel # "none"
    /\ prev.kernel = "none"
    /\ \/ /\ kernel = "rle_compress"
          /\ Call(kernel, input, Ok(rle_compress(input)))
       \/ /\ kernel = "huffman_compress"
          /\ \E order \in IterationOrders(Range(input)) :
                Call(kernel, input, Ok(huffman_compress(input, order)))
       \/ /\ kernel = "specialized_sort_f64"
          /\ Call(kernel, input, specialized_sort_f64(input))
       \/ /\ kernel = "radix_sort_u32"
          /\ Call(kernel, input, radix_sort_u32(input))

IdemNext ==
    \/ CallRleCompress
    \/ CallHuffmanCompress
    \/ CallSort
    \/ CallRadixSort
    \/ CallAgain

SpecIdem == Idle /\ [][IdemNext]_vars

(* C4: two invocations of the same non-randomized kernel with identical    *)
(* inputs return identical outputs: huffman_compress returns the same     *)
(* byte sequence, and so do rle_compress, specialized_sort_f64 and        *)
(* radix_sort_u32.                                                        *)
C4_Idempotent ==
    (kernel # "none" /\ prev.kernel = kernel /\ prev.input = input) =>
        output = prev.output

--------------------------------------------------------------------------
(* Kernels that take a buffer and separately passed dimensions.             *)
(* An f64 is <<v>>, or <<>> for NaN; arithmetic on a NaN gives NaN.         *)

MaxDim == 2

NaN == <<>>

F(v) == <<v>>

FAdd(a, b) == IF a = NaN \/ b = NaN THEN NaN ELSE F(a[1] + b[1])

FMul(a, b) == IF a = NaN \/ b = NaN THEN NaN ELSE F(a[1] * b[1])

(* Float64Array::get_index: an index past the end of the typed array reads *)
(* undefined, which arrives as NaN.                                        *)
get_index(array, i) == IF i < Len(array) THEN F(array[i + 1]) ELSE NaN

(* Float64Array::set_index: a write past the end is dropped.               *)
set_index(array, i, v) == IF i < Len(array) THEN [array EXCEPT ![i + 1] = v] ELSE array

CopyIn(array, n) == [i \in 1..n |-> get_index(array, i - 1)]

(* data_structures/matrix.rs: matrix_multiply_scalar *)
RECURSIVE DotRowCol(_, _, _, _, _, _, _)
DotRowCol(a, b, a_cols, b_cols, i, j, k) ==
    IF k = 0 THEN F(0)
    ELSE FAdd(DotRowCol(a, b, a_cols, b_cols, i, j, k - 1),
              FMul(At(a, i * a_cols + (k - 1)), At(b, (k - 1) * b_cols + j)))

matrix_multiply_scalar(a, b, a_rows, a_cols, b_cols) ==
    [idx \in 1..(a_rows * b_cols) |->
        DotRowCol(a, b, a_cols, b_cols, (idx - 1) \div b_cols, (idx - 1) % b_cols, a_cols)]

(* data_structures/matrix.rs: matrix_multiply_f64 *)
MatrixDimsRejected(a_cols, b_rows) == a_cols # b_rows

matrix_multiply_f64(a, b, a_rows, a_cols, b_rows, b_cols) ==
    IF MatrixDimsRejected(a_cols, b_rows) THEN Err
    ELSE Ok(matrix_multiply_scalar(CopyIn(a, a_rows * a_cols), CopyIn(b, b_rows * b_cols),
                                   a_rows, a_cols, b_cols))

(* data_structures/signal.rs: convolve_scalar.  result_buffer[i + j] +=    *)
(* signal1[i] * signal2[j], the i loop outside and the j loop inside.      *)
RECURSIVE ConvolveAt(_, _, _, _, _)
ConvolveAt(signal1, signal2, n2, t, i) ==
    IF i = 0 THEN F(0)
    ELSE LET rest == ConvolveAt(signal1, signal2, n2, t, i - 1)
             j    == t - (i - 1)
         IN  IF j >= 0 /\ j < n2
             THEN FAdd(rest, FMul(At(signal1, i - 1), At(signal2, j)))
             ELSE rest

convolve_scalar(signal1, signal2, n1, n2) ==
    [idx \in 1..(n1 + n2 - 1) |-> ConvolveAt(signal1, signal2, n2, idx - 1, n1)]

(* data_structures/signal.rs: convolve_f64.  n1 + n2 - 1 is a usize: with  *)
(* n1 = n2 = 0 the subtraction overflows and the call does not return.     *)
convolve_f64(signal1, signal2, n1, n2) ==
    IF n1 + n2 = 0 THEN Panic
    ELSE Ok(convolve_scalar(CopyIn(signal1, n1), CopyIn(signal2, n2), n1, n2))

DimBuffers == {GenBuffer(n, 1, 3) : n \in 0..MaxLen}

CallMatrixMultiply ==
    /\ kernel = "none"
    /\ \E a \in DimBuffers, b \in DimBuffers,
          a_rows \in 0..MaxDim, a_cols \in 0..MaxDim,
          b_rows \in 0..MaxDim, b_cols \in 0..MaxDim :
          Call("matrix_multiply_f64",
               [a |-> a, b |-> b, a_rows |-> a_rows, a_cols |-> a_cols,
                b_rows |-> b_rows, b_cols |-> b_cols],
               matrix_multiply_f64(a, b, a_rows, a_cols, b_rows, b_cols))

CallConvolve ==
    /\ kernel = "none"
    /\ \E signal1 \in DimBuffers, signal2 \in DimBuffers,
          n1 \in 0..MaxDim, n2 \in 0..MaxDim :
          Call("convolve_f64",
               [signal1 |-> signal1, signal2 |-> signal2, n1 |-> n1, n2 |-> n2],
               convolve_f64(signal1, signal2, n1, n2))

--------------------------------------------------------------------------
(* data_structures/neural_network.rs, with the ReLU activation *)

NnEmptyRejected(num_samples, num_outputs) == num_samples = 0 \/ num_outputs = 0

NnWeightsRejected(weights_length, num_features, num_outputs) ==
    weights_length # num_features * num_outputs

(* weights_values[j * num_features + i] is a slice access: an index past   *)
(* the end of the slice aborts the call.                                   *)
NnIndexOutOfBounds(num_samples, num_outputs, num_features, weights_length) ==
    \E j \in 0..(num_outputs - 1), i \in 0..(num_samples - 1) :
        j * num_features + i >= weights_length

RECURSIVE PreActivation(_, _, _, _, _, _)
PreActivation(inputs, weights, biases, num_features, j, i) ==
    IF i = 0 THEN At(biases, j)
    ELSE PreActivation(inputs, weights, biases, num_features, j, i - 1)
            + At(inputs, i - 1) * At(weights, j * num_features + (i - 1))

ReLU(sum) == IF sum > 0 THEN sum ELSE 0

ReLUDerivative(pre_activation) == IF pre_activation > 0 THEN 1 ELSE 0

neural_network_forward_f64(inputs, weights, biases) ==
    LET num_samples == Len(inputs)
        num_outputs == Len(biases)
    IN  IF NnEmptyRejected(num_samples, num_outputs) THEN Err
        ELSE LET num_features == Len(weights) \div num_outputs
             IN  IF NnWeightsRejected(Len(weights), num_features, num_outputs) THEN Err
                 ELSE IF NnIndexOutOfBounds(num_samples, num_outputs, num_features, Len(weights))
                 THEN Panic
                 ELSE Ok([j \in 1..num_outputs |->
                            ReLU(PreActivation(inputs, weights, biases, num_features,
                                               j - 1, num_samples))])

NnTargetsRejected(targets_length, num_outputs) == targets_length # num_outputs

(* delta of output j: (outputs[j] - targets[j]) * activation_derivative *)
Delta(inputs, weights, biases, targets, num_features, j) ==
    LET pre == PreActivation(inputs, weights, biases, num_features, j, Len(inputs))
    IN  (ReLU(pre) - At(targets, j)) * ReLUDerivative(pre)

(* updated_weights starts as zeros; only the entries j * num_features + i  *)
(* with i < num_samples are written.                                       *)
UpdatedWeight(inputs, weights, biases, targets, learning_rate, num_features, idx) ==
    LET j == idx \div num_features
        i == idx % num_features
    IN  IF i < Len(inputs)
        THEN At(weights, idx)
               - learning_rate * Delta(inputs, weights, biases, targets, num_features, j)
                   * At(inputs, i)
        ELSE 0

neural_network_backprop_f64(inputs, weights, biases, targets, learning_rate) ==
    LET num_samples == Len(inputs)
        num_outputs == Len(biases)
    IN  IF NnEmptyRejected(num_samples, num_outputs) THEN Err
        ELSE IF NnTargetsRejected(Len(targets), num_outputs) THEN Err
        ELSE LET num_features == Len(weights) \div num_outputs
             IN  IF NnWeightsRejected(Len(weights), num_features, num_outputs) THEN Err
                 ELSE IF NnIndexOutOfBounds(num_samples, num_outputs, num_features, Len(weights))
                 THEN Panic
                 ELSE Ok([weights |->
                            [idx \in 1..Len(weights) |->
                               UpdatedWeight(inputs, weights, biases, targets,
                                             learning_rate, num_features, idx - 1)],
                          biases |->
                            [j \in 1..num_outputs |->
                               At(biases, j - 1)
                                 - learning_rate * Delta(inputs, weights, biases, targets,
                                                         num_features, j - 1)]])

NnBuffers == {[i \in 1..n |-> (i % 3) - 1] : n \in 0..MaxLen}

CallForward ==
    /\ kernel = "none"
    /\ \E inputs \in NnBuffers, weights \in NnBuffers, biases \in NnBuffers :
          Call("neural_network_forward_f64",
               [inputs |-> inputs, weights |-> weights, biases |-> biases],
               neural_network_forward_f64(inputs, weights, biases))

CallBackprop ==
    /\ kernel = "none"
    /\ \E inputs \in NnBuffers, weights \in NnBuffers, biases \in NnBuffers,
          targets \in NnBuffers, learning_rate \in {1} :
          Call("neural_network_backprop_f64",
               [inputs |-> inputs, weights |-> weights, biases |-> biases,
                targets |-> targets, learning_rate |-> learning_rate],
               neural_network_backprop_f64(inputs, weights, biases, targets, learning_rate))

DimsNext ==
    \/ CallMatrixMultiply
    \/ CallConvolve
    \/ CallForward
    \/ CallBackprop

SpecDims == Idle /\ [][DimsNext]_vars

(* C6: whenever a separately passed dimension disagrees with the actual    *)
(* buffer length, the call returns an error value: matrix_multiply_f64     *)
(* with len(a) # a_rows*a_cols or len(b) # b_rows*b_cols, convolve_f64     *)
(* with n1 # len(signal1) or n2 # len(signal2), and the neural network     *)
(* forward and backprop kernels with len(inputs) # len(weights)/len(biases). *)
C6_LengthAuthoritative ==
    /\ (kernel = "matrix_multiply_f64"
          /\ (Len(input.a) # input.a_rows * input.a_cols
                \/ Len(input.b) # input.b_rows * input.b_cols))
       => output = Err
    /\ (kernel = "convolve_f64"
          /\ (input.n1 # Len(input.signal1) \/ input.n2 # Len(input.signal2)))
       => output = Err
    /\ (kernel \in {"neural_network_forward_f64", "neural_network_backprop_f64"}
          /\ Len(input.biases) # 0
          /\ Len(input.inputs) * Len(input.biases) # Len(input.weights))
       => output = Err

--------------------------------------------------------------------------
(* Kernels with a range-checked parameter.  A quotient is kept exact as the *)
(* pair <<numerator, denominator>>.                                        *)

(* data_structures/time_series.rs *)
WindowRejectedMutant(window_size, length) == window_size > length

WindowRejected(window_size, length) == window_size = 0 \/ window_size > length

RECURSIVE WindowSum(_, _, _)
WindowSum(values, first, n) ==
    IF n = 0 THEN 0 ELSE WindowSum(values, first, n - 1) + At(values, first + n - 1)

RECURSIVE SlidingSumMutant(_, _, _)
SlidingSumMutant(values, window_size, i) ==
    IF i = 0 THEN WindowSum(values, 0, window_size)
    ELSE SlidingSumMutant(values, window_size, i - 1)
           - At(values, i - 1) + At(values, i + window_size - 2)

(* The sliding window: window_sum - values[i - 1] + values[i + window_size - 1] *)
RECURSIVE SlidingSum(_, _, _)
SlidingSum(values, window_size, i) ==
    IF i = 0 THEN WindowSum(values, 0, window_size)
    ELSE SlidingSum(values, window_size, i - 1)
           - At(values, i - 1) + At(values, i + window_size - 1)

numeric_moving_average_f64(values, window_size) ==
    IF WindowRejected(window_size, Len(values)) THEN Err
    ELSE Ok([i \in 1..(Len(values) - window_size + 1) |->
               <<SlidingSum(values, window_size, i - 1), window_size>>])

RECURSIVE WeightedSum(_, _, _)
WeightedSum(values, i, j) ==
    IF j = 0 THEN 0 ELSE WeightedSum(values, i, j - 1) + At(values, i + j - 1) * j

numeric_weighted_moving_average_f64(values, window_size) ==
    IF WindowRejected(window_size, Len(values)) THEN Err
    ELSE LET denominator == (window_size * (window_size + 1)) \div 2
         IN  Ok([i \in 1..(Len(values) - window_size + 1) |->
                   <<WeightedSum(values, i - 1, window_size), denominator>>])

(* alpha is F(tenths) or NaN; a comparison with NaN is false.              *)
AlphaRejected(alpha) == alpha # NaN /\ (alpha[1] <= 0 \/ alpha[1] > 10)

(* ema = alpha * values[i] + (1 - alpha) * result[i - 1] *)
RECURSIVE Ema(_, _, _)
Ema(values, alpha, i) ==
    IF i = 0 THEN <<At(values, 0), 1>>
    ELSE IF alpha = NaN THEN NaN
    ELSE LET last == Ema(values, alpha, i - 1)
         IN  <<alpha[1] * At(values, i) * last[2] + (10 - alpha[1]) * last[1], 10 * last[2]>>

numeric_exponential_moving_average_f64(values, alpha) ==
    IF AlphaRejected(alpha) THEN Err
    ELSE Ok([i \in 1..Len(values) |-> Ema(values, alpha, i - 1)])

(* data_structures/numeric_stats.rs: numeric_percentile_f64, percentile in *)
(* whole percents; the f64 it returns is <<hundredths, 100>>, or NaN.      *)
ClampPercentile(percentile) ==
    IF percentile < 0 THEN 0 ELSE IF percentile > 100 THEN 100 ELSE percentile

numeric_percentile_f64(input_array, percentile) ==
    LET length == Len(input_array)
    IN  IF length = 0 THEN NaN
        ELSE IF length = 1 THEN <<100 * input_array[1], 100>>
        ELSE LET p        == ClampPercentile(percentile)
                 values   == slice_sort_by(input_array)
                 index    == (p * (length - 1)) \div 100
                 fraction == (p * (length - 1)) % 100
             IN  IF index + 1 < length
                 THEN <<100 * At(values, index)
                          + fraction * (At(values, index + 1) - At(values, index)), 100>>
                 ELSE <<100 * At(values, index), 100>>

(* data_structures/machine_learning.rs: pca_f64 *)
PcaEmptyRejected(num_points) == num_points = 0

ComponentsRejected(num_components) == num_components = 0 \/ num_components > 2

RECURSIVE SumEvery2(_, _, _)
SumEvery2(points, offset, n) ==
    IF n = 0 THEN 0 ELSE SumEvery2(points, offset, n - 1) + At(points, (n - 1) * 2 + offset)

(* The centred coordinates times num_points. *)
Centered(points, num_points) ==
    [i \in 1..(num_points * 2) |->
        num_points * points[i] - SumEvery2(points, (i - 1) % 2, num_points)]

RECURSIVE SumProducts(_, _, _, _)
SumProducts(points, a, b, n) ==
    IF n = 0 THEN 0
    ELSE SumProducts(points, a, b, n - 1)
           + At(points, (n - 1) * 2 + a) * At(points, (n - 1) * 2 + b)

(* <<cov_xx, cov_xy, cov_yy>>, each times num_points^3 *)
Covariance(points, num_points) ==
    LET c == Centered(points, num_points)
    IN  <<SumProducts(c, 0, 0, num_points), SumProducts(c, 0, 1, num_points),
          SumProducts(c, 1, 1, num_points)>>

Discriminant(cov) ==
    LET trace       == cov[1] + cov[3]
        determinant == cov[1] * cov[3] - cov[2] * cov[2]
    IN  trace * trace - 4 * determinant

(* The eigenvalues and eigenvectors are square roots of the covariance     *)
(* entries; the result carries the entries they are computed from.         *)
pca_f64(data, num_components) ==
    LET num_points == Len(data) \div 2
    IN  IF PcaEmptyRejected(num_points) THEN Err
        ELSE IF ComponentsRejected(num_components) THEN Err
        ELSE LET cov == Covariance(data, num_points)
             IN  IF Discriminant(cov) < 0 THEN Err
                 ELSE Ok([num_components |-> num_components, covariance |-> cov,
                          discriminant |-> Discriminant(cov)])

WindowSizes == 0..(MaxLen + 1)

Alphas == {F(-5), F(0), F(5), F(10), F(15), NaN}

Percentiles == {-10, 0, 25, 50, 100, 150}

CallMovingAverage ==
    /\ kernel = "none"
    /\ km.pc = "idle"
    /\ \E values \in SmallBuffers, window_size \in WindowSizes :
          Call("numeric_moving_average_f64",
               [input |-> values, window_size |-> window_size],
               numeric_moving_average_f64(values, window_size))

CallWeightedMovingAverage ==
    /\ kernel = "none"
    /\ km.pc = "idle"
    /\ \E values \in SmallBuffers, window_size \in WindowSizes :
          Call("numeric_weighted_moving_average_f64",
               [input |-> values, window_size |-> window_size],
               numeric_weighted_moving_average_f64(values, window_size))

CallExponentialMovingAverage ==
    /\ kernel = "none"
    /\ km.pc = "idle"
    /\ \E values \in SmallBuffers, alpha \in Alphas :
          Call("numeric_exponential_moving_average_f64",
               [input |-> values, alpha |-> alpha],
               numeric_exponential_moving_average_f64(values, alpha))

(* numeric_percentile_f64 returns a bare f64: every call returns a value.  *)
CallPercentile ==
    /\ kernel = "none"
    /\ km.pc = "idle"
    /\ \E values \in SmallBuffers, percentile \in Percentiles :
          Call("numeric_percentile_f64",
               [input |-> values, percentile |-> percentile],
               Ok(numeric_percentile_f64(values, percentile)))

CallPca ==
    /\ kernel = "none"
    /\ km.pc = "idle"
    /\ \E data \in SmallBuffers, num_components \in 0..3 :
          Call("pca_f64",
               [input |-> data, num_components |-> num_components],
               pca_f64(data, num_components))

ParamsNext ==
    \/ CallMovingAverage
    \/ CallWeightedMovingAverage
    \/ CallExponentialMovingAverage
    \/ CallPercentile
    \/ CallPca
    \/ KmStart
    \/ KmSeed
    \/ KmAssign
    \/ KmUpdate

SpecParams == Idle /\ [][ParamsNext]_vars

WindowOutOfRange ==
    /\ kernel \in {"numeric_moving_average_f64", "numeric_weighted_moving_average_f64"}
    /\ (input.window_size = 0 \/ input.window_size > Len(input.input))

AlphaOutOfRange ==
    /\ kernel = "numeric_exponential_moving_average_f64"
    /\ input.alpha # NaN
    /\ (input.alpha[1] <= 0 \/ input.alpha[1] > 10)

ComponentsOutOfRange ==
    /\ kernel = "pca_f64"
    /\ input.num_components \notin {1, 2}

KOutOfRange ==
    /\ km.pc # "idle"
    /\ (km.k = 0 \/ km.k > Len(km.points))

PercentileOutOfRange ==
    /\ kernel = "numeric_percentile_f64"
    /\ (input.percentile < 0 \/ input.percentile > 100)

--------------------------------------------------------------------------
(* data_structures/numeric.rs: the scalar statistics.  Each returns a bare *)
(* f64: F(v), the quotient <<numerator, denominator>>, or NaN.             *)

BATCH_SIZE == 4096

RECURSIVE BatchSum(_, _, _)
BatchSum(input_array, batch_start, batch_size) ==
    IF batch_size = 0 THEN 0
    ELSE BatchSum(input_array, batch_start, batch_size - 1)
           + At(input_array, batch_start + batch_size - 1)

RECURSIVE TotalSum(_, _)
TotalSum(input_array, batch_start) ==
    IF batch_start >= Len(input_array) THEN 0
    ELSE LET batch_end == Min2(batch_start + BATCH_SIZE, Len(input_array))
         IN  BatchSum(input_array, batch_start, batch_end - batch_start)
               + TotalSum(input_array, batch_end)

numeric_sum_f64(input_array) ==
    IF Len(input_array) = 0 THEN F(0) ELSE F(TotalSum(input_array, 0))

numeric_average_f64(input_array) ==
    IF Len(input_array) = 0 THEN F(0)
    ELSE <<numeric_sum_f64(input_array)[1], Len(input_array)>>

RECURSIVE MinUpTo(_, _)
MinUpTo(input_array, i) ==
    IF i = 0 THEN At(input_array, 0)
    ELSE LET min == MinUpTo(input_array, i - 1)
         IN  IF At(input_array, i) < min THEN At(input_array, i) ELSE min

numeric_min_f64(input_array) ==
    IF Len(input_array) = 0 THEN NaN ELSE F(MinUpTo(input_array, Len(input_array) - 1))

RECURSIVE MaxUpTo(_, _)
MaxUpTo(input_array, i) ==
    IF i = 0 THEN At(input_array, 0)
    ELSE LET max == MaxUpTo(input_array, i - 1)
         IN  IF At(input_array, i) > max THEN At(input_array, i) ELSE max

numeric_max_f64(input_array) ==
    IF Len(input_array) = 0 THEN NaN ELSE F(MaxUpTo(input_array, Len(input_array) - 1))

CallSum ==
    /\ kernel = "none"
    /\ \E values \in SmallBuffers :
          Call("numeric_sum_f64", values, Ok(numeric_sum_f64(values)))

CallAverage ==
    /\ kernel = "none"
    /\ \E values \in SmallBuffers :
          Call("numeric_average_f64", values, Ok(numeric_average_f64(values)))

CallMin ==
    /\ kernel = "none"
    /\ \E values \in SmallBuffers :
          Call("numeric_min_f64", values, Ok(numeric_min_f64(values)))

CallMax ==
    /\ kernel = "none"
    /\ \E values \in SmallBuffers :
          Call("numeric_max_f64", values, Ok(numeric_max_f64(values)))

StatsNext ==
    \/ CallSum
    \/ CallAverage
    \/ CallMin
    \/ CallMax

SpecStats == Idle /\ [][StatsNext]_vars

(* C10: on an empty buffer numeric_sum_f64 returns 0 and                   *)
(* numeric_average_f64, numeric_min_f64 and numeric_max_f64 each return    *)
(* NaN; none of them returns an error.                                     *)
C10_EmptyBuffer ==
    (kernel # "none" /\ input = <<>>) =>
        /\ output.status = "ok"
        /\ kernel = "numeric_sum_f64" => output.value = F(0)
        /\ kernel \in {"numeric_average_f64", "numeric_min_f64", "numeric_max_f64"}
             => output.value = NaN

--------------------------------------------------------------------------
(* data_structures/numeric_stats.rs: numeric_median_f64.  The f64 it       *)
(* returns is the quotient <<numerator, denominator>>, or NaN.             *)

MedianMidMutant(length) == (length + 1) \div 2

(* let mid = length / 2 *)
MedianMid(length) == length \div 2

numeric_median_f64(input_array) ==
    LET length == Len(input_array)
    IN  IF length = 0 THEN NaN
        ELSE IF length = 1 THEN <<input_array[1], 1>>
        ELSE LET values == slice_sort_by(input_array)
             IN  IF length % 2 = 0
                 THEN LET mid == MedianMid(length)
                      IN  <<At(values, mid - 1) + At(values, mid), 2>>
                 ELSE <<At(values, MedianMid(length)), 1>>

(* Two quotients are the same number. *)
SameNumber(p, q) == p[1] * q[2] = q[1] * p[2]

CallMedian ==
    /\ kernel = "none"
    /\ \E values \in SmallBuffers :
          Call("numeric_median_f64", values, Ok(numeric_median_f64(values)))

(* The buffer of the last numeric_median_f64 call is handed to             *)
(* numeric_percentile_f64 with percentile 50.                              *)
CallPercentileOfMedianInput ==
    /\ kernel = "numeric_median_f64"
    /\ Call("numeric_percentile_f64", [input |-> input, percentile |-> 50],
            Ok(numeric_percentile_f64(input, 50)))

MedianNext ==
    \/ CallMedian
    \/ CallPercentileOfMedianInput

SpecMedian == Idle /\ [][MedianNext]_vars

(* C11: for every non-empty buffer x, numeric_percentile_f64(x, 50) equals *)
(* numeric_median_f64(x): the middle order statistic for odd length, the   *)
(* average of the two middle order statistics for even length.             *)
C11_PercentileFiftyIsMedian ==
    (kernel = "numeric_percentile_f64" /\ prev.kernel = "numeric_median_f64"
       /\ Len(input.input) > 0)
    => /\ prev.input = input.input
       /\ SameNumber(output.value, prev.output.value)
       /\ LET sorted == slice_sort_by(input.input)
              n      == Len(sorted)
          IN  IF n % 2 = 1
              THEN SameNumber(output.value, <<sorted[(n + 1) \div 2], 1>>)
              ELSE SameNumber(output.value, <<sorted[n \div 2] + sorted[n \div 2 + 1], 2>>)

C11_Witness ==
    /\ kernel = "numeric_percentile_f64"
    /\ prev.kernel = "numeric_median_f64"
    /\ Len(input.input) = 4
    /\ output.value = <<150, 100>>
    /\ prev.output.value = <<3, 2>>

--------------------------------------------------------------------------
(* data_structures/numeric_stats_extended.rs: numeric_quantiles_f64.  A    *)
(* quantile q is given in hundredths; a value of the result is the         *)
(* quotient <<hundredths, 100>>.                                           *)

ClampQuantileMutant(q) == IF q < 0 THEN 0 ELSE q

(* let p = if q < 0.0 { 0.0 } else if q > 1.0 { 1.0 } else { q } *)
ClampQuantile(q) == IF q < 0 THEN 0 ELSE IF q > 100 THEN 100 ELSE q

(* (p * (input_length - 1) as f64) as usize *)
QuantileIndex(p, input_length) == (p * (input_length - 1)) \div 100

(* p * (input_length - 1) - index, in hundredths *)
QuantileFraction(p, input_length) == (p * (input_length - 1)) % 100

QuantileValue(values, q) ==
    LET input_length == Len(values)
        p        == ClampQuantile(q)
        index    == QuantileIndex(p, input_length)
        fraction == QuantileFraction(p, input_length)
    IN  IF index + 1 < input_length
        THEN <<100 * At(values, index)
                 + fraction * (At(values, index + 1) - At(values, index)), 100>>
        ELSE <<100 * At(values, index), 100>>

(* values[index] is a Vec access: an index past the end aborts the call.   *)
QuantileIndexOutOfBounds(input_length, quantiles) ==
    \E i \in 1..Len(quantiles) :
        QuantileIndex(ClampQuantile(quantiles[i]), input_length) >= input_length

numeric_quantiles_f64(input_array, quantiles) ==
    IF Len(input_array) = 0 \/ Len(quantiles) = 0 THEN Ok(<<>>)
    ELSE LET values == slice_sort_by(input_array)
         IN  IF QuantileIndexOutOfBounds(Len(input_array), quantiles) THEN Panic
             ELSE Ok([i \in 1..Len(quantiles) |-> QuantileValue(values, quantiles[i])])

QuantileSet == {-50, 0, 25, 50, 100, 150}

QuantileLists ==
    {<<>>, <<0, 50, 100>>, <<150, -50>>} \cup {<<q>> : q \in QuantileSet}

QuantileBuffers == SmallBuffers \cup {<<1, 2, 3, 4>>, <<4, 2, 1, 3>>}

CallQuantiles ==
    /\ kernel = "none"
    /\ \E values \in QuantileBuffers, quantiles \in QuantileLists :
          Call("numeric_quantiles_f64", [input |-> values, quantiles |-> quantiles],
               numeric_quantiles_f64(values, quantiles))

QuantilesNext == CallQuantiles

SpecQuantiles == Idle /\ [][QuantilesNext]_vars

(* The value the claim gives for the quantile q (in hundredths) of the     *)
(* sorted buffer: i is the integer with i <= q*(n-1) < i + 1.              *)
QuantileReference(sorted, q) ==
    LET n  == Len(sorted)
        qc == IF q < 0 THEN 0 ELSE IF q > 100 THEN 100 ELSE q
        i  == CHOOSE j \in 0..(n - 1) : 100 * j <= qc * (n - 1) /\ qc * (n - 1) < 100 * (j + 1)
        f  == qc * (n - 1) - 100 * i
    IN  IF i = n - 1 THEN <<sorted[n], 1>>
        ELSE <<100 * sorted[i + 1] + f * (sorted[i + 2] - sorted[i + 1]), 100>>

(* C12: for a non-empty input of length n and every requested quantile q,  *)
(* numeric_quantiles_f64 clamps q to [0,1] and returns the linear          *)
(* interpolation between sorted[i] and sorted[i+1] at rank q*(n-1); the    *)
(* index stays within 0..n-1, q = 0 gives the minimum, q = 1 the maximum,  *)
(* and ([1,2,3,4], [0.0, 0.5, 1.0]) gives [1, 2.5, 4].                     *)
C12_QuantilesInterpolate ==
    (kernel = "numeric_quantiles_f64" /\ Len(input.input) > 0 /\ Len(input.quantiles) > 0)
    => LET sorted == slice_sort_by(input.input)
           n      == Len(sorted)
       IN  /\ output.status = "ok"
           /\ Len(output.value) = Len(input.quantiles)
           /\ \A i \in 1..Len(input.quantiles) :
                 /\ SameNumber(output.value[i], QuantileReference(sorted, input.quantiles[i]))
                 /\ input.quantiles[i] <= 0 => SameNumber(output.value[i], <<sorted[1], 1>>)
                 /\ input.quantiles[i] >= 100 => SameNumber(output.value[i], <<sorted[n], 1>>)
           /\ (input.input = <<1, 2, 3, 4>> /\ input.quantiles = <<0, 50, 100>>)
                 => /\ SameNumber(output.value[1], <<1, 1>>)
                    /\ SameNumber(output.value[2], <<5, 2>>)
                    /\ SameNumber(output.value[3], <<4, 1>>)

C12_Witness ==
    /\ kernel = "numeric_quantiles_f64"
    /\ input.input = <<4, 2, 1, 3>>
    /\ input.quantiles = <<150, -50>>
    /\ output = Ok(<<<<400, 100>>, <<100, 100>>>>)

--------------------------------------------------------------------------
(* numeric_correlation_f64 (numeric_stats.rs) and numeric_covariance_f64   *)
(* (numeric_stats_extended.rs).  The differences x[i] - mean_x are kept    *)
(* exact by scaling them with the length: length * x[i] - sum_x.           *)

MaxPairLen == 3

RECURSIVE SumFirst(_, _)
SumFirst(values, n) == IF n = 0 THEN 0 ELSE SumFirst(values, n - 1) + values[n]

(* x_diff * y_diff summed over the first `length` elements, times length^2 *)
RECURSIVE SumDiffProducts(_, _, _, _)
SumDiffProducts(x, y, length, n) ==
    IF n = 0 THEN 0
    ELSE SumDiffProducts(x, y, length, n - 1)
           + (length * x[n] - SumFirst(x, length)) * (length * y[n] - SumFirst(y, length))

(* The f64 returned is NaN, a quotient <<numerator, denominator>>, or      *)
(* <<sum_xy, sum_x2, sum_y2>> for sum_xy / (sqrt(sum_x2) * sqrt(sum_y2)).  *)
numeric_correlation_f64(x, y) ==
    LET length == Min2(Len(x), Len(y))
    IN  IF length = 0 THEN NaN
        ELSE IF length = 1 THEN <<1, 1>>
        ELSE LET sum_xy == SumDiffProducts(x, y, length, length)
                 sum_x2 == SumDiffProducts(x, x, length, length)
                 sum_y2 == SumDiffProducts(y, y, length, length)
             IN  IF sum_x2 = 0 \/ sum_y2 = 0 THEN <<0, 1>>
                 ELSE <<sum_xy, sum_x2, sum_y2>>

numeric_covariance_f64(x, y) ==
    LET length == Min2(Len(x), Len(y))
    IN  IF length = 0 THEN NaN
        ELSE IF length = 1 THEN <<0, 1>>
        ELSE <<SumDiffProducts(x, y, length, length), length * length * length>>

PairBuffers == SeqsUpTo(0..MaxVal, MaxPairLen)

CallCorrelation ==
    /\ kernel = "none"
    /\ \E x \in PairBuffers, y \in PairBuffers :
          Call("numeric_correlation_f64", [x |-> x, y |-> y], Ok(numeric_correlation_f64(x, y)))

CallCovariance ==
    /\ kernel = "none"
    /\ \E x \in PairBuffers, y \in PairBuffers :
          Call("numeric_covariance_f64", [x |-> x, y |-> y], Ok(numeric_covariance_f64(x, y)))

PairsNext ==
    \/ CallCorrelation
    \/ CallCovariance

SpecPairs == Idle /\ [][PairsNext]_vars

Truncated(s, n) == SubSeq(s, 1, n)

AllEqual(s) == \A i \in 1..Len(s) : s[i] = s[1]

(* C13: numeric_correlation_f64 and numeric_covariance_f64 read only the   *)
(* first min(len_x, len_y) elements of each input and never report         *)
(* mismatched lengths as an error; whenever either truncated, non-empty    *)
(* input has zero variance (all its elements equal, the one-element case   *)
(* included), numeric_correlation_f64 returns 0 and not NaN.               *)
C13_TruncateAndZeroVariance ==
    (kernel \in {"numeric_correlation_f64", "numeric_covariance_f64"}) =>
        LET m  == Min2(Len(input.x), Len(input.y))
            tx == Truncated(input.x, m)
            ty == Truncated(input.y, m)
        IN  /\ output.status = "ok"
            /\ kernel = "numeric_correlation_f64"
                  => output.value = numeric_correlation_f64(tx, ty)
            /\ kernel = "numeric_covariance_f64"
                  => output.value = numeric_covariance_f64(tx, ty)
            /\ (kernel = "numeric_correlation_f64" /\ m > 0 /\ (AllEqual(tx) \/ AllEqual(ty)))
                  => output.value = <<0, 1>>

--------------------------------------------------------------------------
(* numeric_moving_average_f64 on its own *)

MovingAverageNext == CallMovingAverage

SpecMovingAverage == Idle /\ [][MovingAverageNext]_vars

(* C14: for 1 <= window_size <= length, numeric_moving_average_f64 returns *)
(* exactly length - window_size + 1 values, and the value at position i    *)
(* equals the sum of x[i .. i+window_size-1] divided by window_size; for   *)
(* window_size = 0 or window_size > length it returns an error and         *)
(* produces no output.                                                     *)
C14_MovingAverageWindows ==
    (kernel = "numeric_moving_average_f64") =>
        LET x == input.input
            w == input.window_size
        IN  IF 1 <= w /\ w <= Len(x)
            THEN /\ output.status = "ok"
                 /\ Len(output.value) = Len(x) - w + 1
                 /\ \A i \in 1..Len(output.value) :
                       LET window == SubSeq(x, i, i + w - 1)
                       IN  SameNumber(output.value[i], <<SumFirst(window, w), w>>)
            ELSE output = Err

C14_Witness ==
    /\ kernel = "numeric_moving_average_f64"
    /\ input = [input |-> <<0, 1, 2, 2>>, window_size |-> 2]
    /\ output = Ok(<< <<1, 2>>, <<3, 2>>, <<4, 2>> >>)

--------------------------------------------------------------------------
(* data_structures/time_series.rs: numeric_interpolate_missing_f64.  An    *)
(* element of the input is F(v) or NaN; an element of the result is the    *)
(* quotient <<numerator, denominator>>, or NaN.                            *)

(* first_valid_index: the first i with !values[i].is_nan(), 0-based, or    *)
(* None.                                                                   *)
FirstValidIndex(values) ==
    IF \A i \in 1..Len(values) : values[i] = NaN THEN None
    ELSE Some(CHOOSE i \in 0..(Len(values) - 1) :
                 /\ At(values, i) # NaN
                 /\ \A j \in 0..(i - 1) : At(values, j) = NaN)

(* for j in 1..gap { result[last_valid_index + j] = last_valid_value + step * j } *)
FillGap(result, last_valid_index, last_valid_value, value, gap) ==
    [idx \in 1..Len(result) |->
        LET j == (idx - 1) - last_valid_index
        IN  IF 1 <= j /\ j < gap
            THEN <<last_valid_value * gap + (value - last_valid_value) * j, gap>>
            ELSE result[idx]]

(* Body of: for i in (first_valid + 1)..length *)
InterpolateStep(values, st) ==
    LET i == st.i
    IN  IF At(values, i) # NaN
        THEN LET value  == At(values, i)[1]
                 filled == IF i > st.last_valid_index + 1
                           THEN FillGap(st.result, st.last_valid_index, st.last_valid_value,
                                        value, i - st.last_valid_index)
                           ELSE st.result
             IN  [i |-> i + 1, result |-> Put(filled, i, <<value, 1>>),
                  last_valid_index |-> i, last_valid_value |-> value]
        ELSE IF i = Len(values) - 1
        THEN [st EXCEPT !.i = i + 1, !.result = Put(st.result, i, <<st.last_valid_value, 1>>)]
        ELSE [st EXCEPT !.i = i + 1]

RECURSIVE InterpolateLoop(_, _)
InterpolateLoop(values, st) ==
    IF st.i >= Len(values) THEN st.result
    ELSE InterpolateLoop(values, InterpolateStep(values, st))

numeric_interpolate_missing_f64(values) ==
    LET length == Len(values)
    IN  IF length = 0 THEN Ok(<<>>)
        ELSE IF FirstValidIndex(values) = None THEN Ok(values)
        ELSE LET first_valid == FirstValidIndex(values)[1]
                 first_value == At(values, first_valid)[1]
                 \* Float64Array::new_with_length: zeros; then the leading run
                 \* and the first valid value
                 leading == [idx \in 1..length |->
                               IF idx - 1 <= first_valid THEN <<first_value, 1>> ELSE <<0, 1>>]
             IN  Ok(InterpolateLoop(values,
                        [i |-> first_valid + 1, result |-> leading,
                         last_valid_index |-> first_valid, last_valid_value |-> first_value]))

GapBuffers == SeqsUpTo({NaN} \cup {F(v) : v \in 0..MaxVal}, MaxLen)

CallInterpolateMissing ==
    /\ kernel = "none"
    /\ \E values \in GapBuffers :
          Call("numeric_interpolate_missing_f64", values,
               numeric_interpolate_missing_f64(values))

InterpolateNext == CallInterpolateMissing

SpecInterpolate == Idle /\ [][InterpolateNext]_vars

ValidPositions(values) == {i \in 1..Len(values) : values[i] # NaN}

(* C15: for every buffer with at least one non-NaN value the result has    *)
(* the same length and no NaN; every valid position keeps its value, every *)
(* position of an interior NaN run lies on the straight line between the   *)
(* two nearest valid neighbours, every position of a leading NaN run       *)
(* equals the first valid value and every position of a trailing NaN run   *)
(* equals the last valid value; an all-NaN buffer is returned unchanged.   *)
C15_GapsFilled ==
    (kernel = "numeric_interpolate_missing_f64") =>
        LET valid == ValidPositions(input)
        IN  /\ output.status = "ok"
            /\ Len(output.value) = Len(input)
            /\ valid = {} => output.value = input
            /\ valid # {} =>
                 \A i \in 1..Len(input) :
                    LET before == {v \in valid : v <= i}
                        after  == {v \in valid : v >= i}
                        lo     == CHOOSE v \in before : \A u \in before : u <= v
                        hi     == CHOOSE v \in after : \A u \in after : v <= u
                    IN  /\ output.value[i] # NaN
                        /\ before = {} => SameNumber(output.value[i], <<input[hi][1], 1>>)
                        /\ after = {} => SameNumber(output.value[i], <<input[lo][1], 1>>)
                        /\ (before # {} /\ after # {} /\ lo = hi)
                              => SameNumber(output.value[i], <<input[i][1], 1>>)
                        /\ (before # {} /\ after # {} /\ lo < hi)
                              => SameNumber(output.value[i],
                                            <<input[lo][1] * (hi - lo)
                                                + (input[hi][1] - input[lo][1]) * (i - lo),
                                              hi - lo>>)

--------------------------------------------------------------------------
(* data_structures/signal.rs: fft_f64 and fft_recursive.  The twiddle      *)
(* factors cos(angle) + i sin(angle), angle = -2 pi k / n, are powers of   *)
(* w = exp(-2 pi i / N) for the length N of the whole signal, so a Complex *)
(* is kept exact as the coefficients c[0..N-1] of c[0] + c[1] w + ... +    *)
(* c[N-1] w^(N-1).                                                         *)

MaxFftLen == 8

Complex(real, N) == [e \in 0..(N - 1) |-> IF e = 0 THEN real ELSE 0]

ComplexAdd(a, b) == [e \in DOMAIN a |-> a[e] + b[e]]

ComplexSub(a, b) == [e \in DOMAIN a |-> a[e] - b[e]]

(* odd_fft[k].mul(&twiddle), the twiddle being w^(k * N / n) *)
MulTwiddle(a, k, n, N) == [e \in DOMAIN a |-> a[(e - k * (N \div n)) % N]]

(* n <= 1 || (n & (n - 1)) != 0 *)
RECURSIVE IsPowerOfTwo(_)
IsPowerOfTwo(n) ==
    IF n <= 0 THEN FALSE
    ELSE IF n = 1 THEN TRUE
    ELSE n % 2 = 0 /\ IsPowerOfTwo(n \div 2)

FftLengthRejected(n) == n <= 1 \/ ~IsPowerOfTwo(n)

EvenElements(signal, n) == [i \in 1..(n \div 2) |-> At(signal, (i - 1) * 2)]

OddElements(signal, n) == [i \in 1..(n \div 2) |-> At(signal, (i - 1) * 2 + 1)]

RECURSIVE fft_recursive(_, _, _)
fft_recursive(signal, n, N) ==
    IF n = 1 THEN <<signal[1]>>
    ELSE LET even_fft == fft_recursive(EvenElements(signal, n), n \div 2, N)
             odd_fft  == fft_recursive(OddElements(signal, n), n \div 2, N)
         IN  [idx \in 1..n |->
                LET k        == (idx - 1) % (n \div 2)
                    odd_term == MulTwiddle(At(odd_fft, k), k, n, N)
                IN  IF idx - 1 < n \div 2
                    THEN ComplexAdd(At(even_fft, k), odd_term)
                    ELSE ComplexSub(At(even_fft, k), odd_term)]

(* The result array: real and imaginary part of result[i], interleaved.    *)
fft_f64(signal) ==
    LET n == Len(signal)
    IN  IF FftLengthRejected(n) THEN Err
        ELSE LET complex_signal == [i \in 1..n |-> Complex(signal[i], n)]
                 result == fft_recursive(complex_signal, n, n)
             IN  Ok([idx \in 1..(n * 2) |->
                       IF (idx - 1) % 2 = 0
                       THEN <<"real", At(result, (idx - 1) \div 2)>>
                       ELSE <<"imag", At(result, (idx - 1) \div 2)>>])

FftBuffers == SeqsUpTo(0..1, MaxFftLen)

CallFft ==
    /\ kernel = "none"
    /\ \E signal \in FftBuffers : Call("fft_f64", signal, fft_f64(signal))

FftNext == CallFft

SpecFft == Idle /\ [][FftNext]_vars

(* C16: fft_f64 returns an error exactly when the input length is not an   *)
(* exact power of two; for every power-of-two length n (1, 2, 4, 8, ...)   *)
(* it succeeds and returns 2n values.                                      *)
C16_PowerOfTwoOnly ==
    (kernel = "fft_f64") =>
        /\ output = Err <=> ~(\E e \in 0..MaxFftLen : Len(input) = 2^e)
        /\ (\E e \in 0..MaxFftLen : Len(input) = 2^e)
              => (output.status = "ok" /\ Len(output.value) = 2 * Len(input))

--------------------------------------------------------------------------
(* data_structures/signal.rs: convolve_simd, the path of a build with the  *)
(* simd feature.  result_buffer is a Vec: an index past its end aborts the *)
(* call, which the state records in `oob`.                                 *)

MaxSignalLen == 5

BLOCK_SIZE == 4

(* result_buffer[idx] += v *)
BufferAdd(st, idx, v) ==
    IF idx >= Len(st.buf) THEN [st EXCEPT !.oob = TRUE]
    ELSE [st EXCEPT !.buf = Put(st.buf, idx, FAdd(At(st.buf, idx), v))]

(* One block of 4: current + s1_vec * s2_vec, lane by lane *)
SimdBlock(signal1, signal2, i, j, st) ==
    LET s1 == At(signal1, i)
        l0 == BufferAdd(st, i + j, FMul(s1, At(signal2, j)))
        l1 == BufferAdd(l0, i + j + 1, FMul(s1, At(signal2, j + 1)))
        l2 == BufferAdd(l1, i + j + 2, FMul(s1, At(signal2, j + 2)))
    IN  BufferAdd(l2, i + j + 3, FMul(s1, At(signal2, j + 3)))

(* The inner loops for one i: the blocks, then the remaining elements *)
RECURSIVE SimdRow(_, _, _, _, _, _)
SimdRow(signal1, signal2, n2, i, j, st) ==
    LET simd_length == (n2 \div BLOCK_SIZE) * BLOCK_SIZE
    IN  IF j >= n2 THEN st
        ELSE IF j < simd_length
        THEN SimdRow(signal1, signal2, n2, i, j + BLOCK_SIZE,
                     SimdBlock(signal1, signal2, i, j, st))
        ELSE SimdRow(signal1, signal2, n2, i, j + 1,
                     BufferAdd(st, i + j, FMul(At(signal1, i), At(signal2, j))))

RECURSIVE SimdRows(_, _, _, _, _, _)
SimdRows(signal1, signal2, n1, n2, i, st) ==
    IF i >= n1 THEN st
    ELSE SimdRows(signal1, signal2, n1, n2, i + 1, SimdRow(signal1, signal2, n2, i, 0, st))

convolve_simd(signal1, signal2, n1, n2) ==
    SimdRows(signal1, signal2, n1, n2, 0,
             [buf |-> [idx \in 1..(n1 + n2 - 1) |-> F(0)], oob |-> FALSE])

(* convolve_f64 as built with the simd feature *)
convolve_f64_simd(signal1, signal2, n1, n2) ==
    IF n1 + n2 = 0 THEN Panic
    ELSE LET st == convolve_simd(CopyIn(signal1, n1), CopyIn(signal2, n2), n1, n2)
         IN  IF st.oob THEN Panic ELSE Ok(st.buf)

SignalBuffers == SeqsUpTo(0..1, MaxSignalLen)

CallConvolveScalar ==
    /\ kernel = "none"
    /\ \E signal1 \in SignalBuffers, signal2 \in SignalBuffers :
          Call("convolve_f64",
               [signal1 |-> signal1, signal2 |-> signal2, n1 |-> Len(signal1),
                n2 |-> Len(signal2), build |-> "scalar"],
               convolve_f64(signal1, signal2, Len(signal1), Len(signal2)))

CallConvolveSimd ==
    /\ kernel = "none"
    /\ \E signal1 \in SignalBuffers, signal2 \in SignalBuffers :
          Call("convolve_f64",
               [signal1 |-> signal1, signal2 |-> signal2, n1 |-> Len(signal1),
                n2 |-> Len(signal2), build |-> "simd"],
               convolve_f64_simd(signal1, signal2, Len(signal1), Len(signal2)))

ConvolveNext ==
    \/ CallConvolveScalar
    \/ CallConvolveSimd

SpecConvolve == Idle /\ [][ConvolveNext]_vars

(* sum over i + j = m of signal1[i] * signal2[j], i and j from 0 *)
RECURSIVE DirectSum(_, _, _, _)
DirectSum(signal1, signal2, m, i) ==
    IF i = 0 THEN 0
    ELSE DirectSum(signal1, signal2, m, i - 1)
           + (IF m - (i - 1) >= 0 /\ m - (i - 1) < Len(signal2)
              THEN At(signal1, i - 1) * At(signal2, m - (i - 1)) ELSE 0)

(* C17: for all signal lengths n1 and n2, convolve_f64 returns exactly     *)
(* n1 + n2 - 1 values with result[m] = sum over i + j = m of               *)
(* signal1[i]*signal2[j]; the SIMD path and the scalar path produce the    *)
(* same buffer as this direct summation, and neither indexes outside the   *)
(* result buffer.                                                          *)
C17_ConvolutionDirectSum ==
    (kernel = "convolve_f64") =>
        /\ output.status = "ok"
        /\ Len(output.value) = input.n1 + input.n2 - 1
        /\ \A m \in 1..Len(output.value) :
              output.value[m] = F(DirectSum(input.signal1, input.signal2, m - 1, input.n1))


--------------------------------------------------------------------------
(***************************************************************************)
(* IEEE 754 binary64 arithmetic.  linear_regression_f64 tests a computed   *)
(* sum of squares against 0.0, and whether that sum is zero depends on the *)
(* rounding of every operation before it, so here the f64 operations are   *)
(* modelled bit for bit: a finite f64 is (-1)^neg * mant * 2^exp with mant *)
(* a 53-bit significand, every result is rounded to nearest, ties to even. *)
(* Magnitudes are unbounded integers held as little-endian sequences of    *)
(* 15-bit limbs without leading zero limbs (<<>> is 0).  Exponents stay    *)
(* far inside the normal range for the inputs used, so overflow,           *)
(* subnormals, infinities and the sign of zero play no part.               *)
(***************************************************************************)
\* 52 stored fraction bits and the implicit leading bit
MANTISSA_DIGITS == 52 + 1

LimbBase == 2 ^ 15

LimbBits == CHOOSE n \in 1..30 : 2 ^ n = LimbBase

(* The value of Body at the value of e, with e evaluated once however      *)
(* often Body refers to its argument.                                      *)
Bind(e, Body(_)) == CHOOSE r \in {Body(v) : v \in {e}} : TRUE

Limb(a, i) == IF i <= Len(a) THEN a[i] ELSE 0

BigTrim(limbs) ==
    Bind(limbs, LAMBDA a :
        Bind({i \in 1..Len(a) : a[i] # 0}, LAMBDA used :
            IF used = {} THEN <<>>
            ELSE SubSeq(a, 1, CHOOSE i \in used : \A j \in used : j <= i)))

BigAdd(x, y) ==
    Bind(x, LAMBDA a : Bind(y, LAMBDA b :
    LET Step(st) ==
            LET s == Limb(a, st.i) + Limb(b, st.i) + st.carry
            IN  [i |-> st.i + 1, carry |-> s \div LimbBase,
                 acc |-> Append(st.acc, s % LimbBase)]
        n == IF Len(a) < Len(b) THEN Len(b) + 1 ELSE Len(a) + 1
    IN  BigTrim(Iterate(Step, [i |-> 1, carry |-> 0, acc |-> <<>>], n).acc)))

\* a - b for a >= b
BigSub(x, y) ==
    Bind(x, LAMBDA a : Bind(y, LAMBDA b :
    LET Step(st) ==
            LET d == a[st.i] - Limb(b, st.i) - st.borrow
            IN  [i |-> st.i + 1, borrow |-> IF d < 0 THEN 1 ELSE 0,
                 acc |-> Append(st.acc, d % LimbBase)]
    IN  BigTrim(Iterate(Step, [i |-> 1, borrow |-> 0, acc |-> <<>>], Len(a)).acc)))

BigLess(x, y) ==
    \E a \in {x}, b \in {y} :
        \/ Len(a) < Len(b)
        \/ /\ Len(a) = Len(b)
           /\ \E i \in 1..Len(a) :
                 /\ a[i] < b[i]
                 /\ \A j \in (i + 1)..Len(a) : a[j] = b[j]

\* a * m for one limb m
BigMulLimb(x, y) ==
    Bind(x, LAMBDA a : Bind(y, LAMBDA m :
    LET Step(st) ==
            LET s == Limb(a, st.i) * m + st.carry
            IN  [i |-> st.i + 1, carry |-> s \div LimbBase,
                 acc |-> Append(st.acc, s % LimbBase)]
    IN  BigTrim(Iterate(Step, [i |-> 1, carry |-> 0, acc |-> <<>>], Len(a) + 1).acc)))

BigShlLimbs(x, n) ==
    Bind(x, LAMBDA a :
        IF a = <<>> THEN <<>> ELSE [i \in 1..(Len(a) + n) |-> IF i <= n THEN 0 ELSE a[i - n]])

\* a * 2^k
BigShl(a, k) == BigShlLimbs(BigMulLimb(a, 2 ^ (k % LimbBits)), k \div LimbBits)

\* a \div 2^k
BigShr(x, k) ==
    Bind(x, LAMBDA a :
        Bind(SubSeq(a, (k \div LimbBits) + 1, Len(a)), LAMBDA high :
            Bind(2 ^ (k % LimbBits), LAMBDA low :
                BigTrim([j \in 1..Len(high) |->
                            (high[j] \div low) + (Limb(high, j + 1) % low) * (LimbBase \div low)]))))

BitLength(x) ==
    Bind(x, LAMBDA a :
        IF a = <<>> THEN 0
        ELSE LimbBits * (Len(a) - 1)
                + (CHOOSE n \in 1..LimbBits : a[Len(a)] \div (2 ^ (n - 1)) = 1))

\* bit i of a, the least significant bit being bit 1
BigBit(a, i) == (Limb(a, ((i - 1) \div LimbBits) + 1) \div (2 ^ ((i - 1) % LimbBits))) % 2

\* 2 * a + bit
BigDouble(x, bit) == Bind(x, LAMBDA a : BigAdd(BigAdd(a, a), IF bit = 1 THEN <<1>> ELSE <<>>))

BigMul(x, y) ==
    Bind(x, LAMBDA a : Bind(y, LAMBDA b :
    LET Step(st) ==
            [i |-> st.i + 1,
             acc |-> BigAdd(st.acc, BigShlLimbs(BigMulLimb(a, b[st.i]), st.i - 1))]
    IN  Iterate(Step, [i |-> 1, acc |-> <<>>], Len(b)).acc))

\* long division, most significant bit of a first: a = quot * b + rem
BigDivMod(x, y) ==
    Bind(x, LAMBDA a : Bind(y, LAMBDA b : Bind(BitLength(a), LAMBDA n :
    LET Step(st) ==
            Bind(BigDouble(st.rem, BigBit(a, st.i)), LAMBDA r :
                IF BigLess(r, b)
                THEN [i |-> st.i - 1, rem |-> r, quot |-> BigDouble(st.quot, 0)]
                ELSE [i |-> st.i - 1, rem |-> BigSub(r, b), quot |-> BigDouble(st.quot, 1)])
    IN  Iterate(Step, [i |-> n, rem |-> <<>>, quot |-> <<>>], n))))

BigFromNat(n) == BigTrim(<<n % LimbBase, (n \div LimbBase) % LimbBase, n \div (LimbBase * LimbBase)>>)

F64Zero == [neg |-> FALSE, mant |-> <<>>, exp |-> 0]

IsZero(p) == p.mant = <<>>

\* round the exact value (-1)^neg * magnitude * 2^exp to the nearest f64, ties to even
RoundToF64(neg, exact, exp) ==
    Bind(exact, LAMBDA magnitude : Bind(BitLength(magnitude) - MANTISSA_DIGITS, LAMBDA dropped :
        IF magnitude = <<>> THEN F64Zero
        ELSE IF dropped <= 0
        THEN [neg |-> neg, mant |-> BigShl(magnitude, -dropped), exp |-> exp + dropped]
        ELSE Bind(BigShr(magnitude, dropped), LAMBDA kept :
             LET half == BigBit(magnitude, dropped) = 1
                 sticky == BigShl(BigShr(magnitude, dropped - 1), dropped - 1) # magnitude
                 up == half /\ (sticky \/ BigBit(kept, 1) = 1)
             IN  Bind(IF up THEN BigAdd(kept, <<1>>) ELSE kept, LAMBDA rounded :
                     IF BitLength(rounded) > MANTISSA_DIGITS
                     THEN [neg |-> neg, mant |-> BigShr(rounded, 1),
                           exp |-> exp + dropped + 1]
                     ELSE [neg |-> neg, mant |-> rounded, exp |-> exp + dropped]))))

\* `n as f64` for a usize n
f64_from(n) == RoundToF64(FALSE, BigFromNat(n), 0)

f64_neg(x) == Bind(x, LAMBDA p : IF IsZero(p) THEN p ELSE [p EXCEPT !.neg = ~p.neg])

f64_add(x, y) ==
    Bind(x, LAMBDA p : Bind(y, LAMBDA q :
    IF IsZero(p) THEN q
    ELSE IF IsZero(q) THEN p
    ELSE Bind(Min2(p.exp, q.exp), LAMBDA exp :
         Bind(BigShl(p.mant, p.exp - exp), LAMBDA a :
         Bind(BigShl(q.mant, q.exp - exp), LAMBDA b :
             IF p.neg = q.neg THEN RoundToF64(p.neg, BigAdd(a, b), exp)
             ELSE IF BigLess(b, a) THEN RoundToF64(p.neg, BigSub(a, b), exp)
             ELSE IF BigLess(a, b) THEN RoundToF64(q.neg, BigSub(b, a), exp)
             ELSE F64Zero)))))

f64_sub(p, q) == f64_add(p, f64_neg(q))

f64_mul(x, y) ==
    Bind(x, LAMBDA p : Bind(y, LAMBDA q :
    IF IsZero(p) \/ IsZero(q) THEN F64Zero
    ELSE RoundToF64(p.neg # q.neg, BigMul(p.mant, q.mant), p.exp + q.exp)))

\* p / q for q # 0: the quotient carries three bits beyond the significand
\* and a last bit that records a non-zero remainder
f64_div(x, y) ==
    Bind(x, LAMBDA p : Bind(y, LAMBDA q :
    IF IsZero(p) THEN F64Zero
    ELSE LET shift == MANTISSA_DIGITS + 3
         IN  Bind(BigDivMod(BigShl(p.mant, shift), q.mant), LAMBDA d :
                 RoundToF64(p.neg # q.neg,
                            BigDouble(d.quot, IF d.rem = <<>> THEN 0 ELSE 1),
                            p.exp - q.exp - shift - 1))))

(* data_structures/machine_learning.rs: linear_regression_f64 *)

MaxRegressionLen == 3

\* sum += values[i] for i in 0..length, from 0.0
F64SumFirst(values, length) ==
    LET Step(st) == [i |-> st.i + 1, sum |-> f64_add(st.sum, values[st.i])]
    IN  Iterate(Step, [i |-> 1, sum |-> F64Zero], length).sum

\* numerator += x_diff * y_diff; denominator += x_diff * x_diff
RegressionStep(x_values, y_values, mean_x, mean_y, st) ==
    Bind(f64_sub(x_values[st.i], mean_x), LAMBDA x_diff :
    Bind(f64_sub(y_values[st.i], mean_y), LAMBDA y_diff :
        [i |-> st.i + 1,
         numerator |-> f64_add(st.numerator, f64_mul(x_diff, y_diff)),
         denominator |-> f64_add(st.denominator, f64_mul(x_diff, x_diff))]))

\* ss_total += y_diff * y_diff; ss_residual += residual * residual
ResidualStep(x_values, y_values, mean_y, slope, intercept, st) ==
    Bind(f64_add(f64_mul(slope, x_values[st.i]), intercept), LAMBDA y_pred :
    Bind(f64_sub(y_values[st.i], mean_y), LAMBDA y_diff :
    Bind(f64_sub(y_values[st.i], y_pred), LAMBDA residual :
        [i |-> st.i + 1,
         ss_total |-> f64_add(st.ss_total, f64_mul(y_diff, y_diff)),
         ss_residual |-> f64_add(st.ss_residual, f64_mul(residual, residual))])))

(* Both builds run the same operations in the same order on fewer than 4   *)
(* pairs: with the simd feature simd_length is 0, the vector sums reduce   *)
(* to 0.0 and the scalar tail loops cover 0..length.                       *)
linear_regression_f64(x, y) ==
    LET length == Min2(Len(x), Len(y))
    IN  IF length < 2 THEN Err
        ELSE
        Bind(f64_div(F64SumFirst(x, length), f64_from(length)), LAMBDA mean_x :
        Bind(f64_div(F64SumFirst(y, length), f64_from(length)), LAMBDA mean_y :
        LET Sums(st) == RegressionStep(x, y, mean_x, mean_y, st)
        IN  Bind(Iterate(Sums, [i |-> 1, numerator |-> F64Zero,
                                denominator |-> F64Zero], length), LAMBDA sums :
            IF IsZero(sums.denominator) THEN Err
            ELSE
            Bind(f64_div(sums.numerator, sums.denominator), LAMBDA slope :
            Bind(f64_sub(mean_y, f64_mul(slope, mean_x)), LAMBDA intercept :
            LET Squares(st) == ResidualStep(x, y, mean_y, slope, intercept, st)
            IN  Bind(Iterate(Squares, [i |-> 1, ss_total |-> F64Zero,
                                       ss_residual |-> F64Zero], length), LAMBDA squares :
                Ok([slope |-> slope, intercept |-> intercept,
                    r_squared |-> IF IsZero(squares.ss_total) THEN F64Zero
                                  ELSE f64_sub(f64_from(1),
                                               f64_div(squares.ss_residual,
                                                       squares.ss_total))])))))))

\* the f64 nearest to 0.1, as a caller's Float64Array holds it
Tenth == f64_div(f64_from(1), f64_from(10))

RegressionXs == SeqsUpTo({Tenth, f64_from(1)}, MaxRegressionLen)

RegressionYs == SeqsUpTo({f64_from(1), f64_from(2)}, MaxRegressionLen)

CallLinearRegression ==
    /\ kernel = "none"
    /\ \E x \in RegressionXs, y \in RegressionYs :
          Call("linear_regression_f64", [x |-> x, y |-> y], linear_regression_f64(x, y))

RegressionNext == CallLinearRegression

SpecRegression == Idle /\ [][RegressionNext]_vars

(* C18: linear_regression_f64 returns an error when fewer than 2 (x, y)    *)
(* pairs are available after truncating to the shorter input, and when all *)
(* the x of the pairs are equal; in every other case it returns slope,     *)
(* intercept and r_squared with slope = sum((x-mean_x)(y-mean_y)) /        *)
(* sum((x-mean_x)^2) and intercept = mean_y - slope*mean_x, each formula   *)
(* evaluated in f64 arithmetic.                                            *)
C18_RegressionErrorsAndFit ==
    kernel = "linear_regression_f64" =>
        LET length == Min2(Len(input.x), Len(input.y))
            x == Truncated(input.x, length)
            y == Truncated(input.y, length)
        IN  IF length < 2 \/ AllEqual(x)
            THEN output = Err
            ELSE LET mean_x == f64_div(F64SumFirst(x, length), f64_from(length))
                     mean_y == f64_div(F64SumFirst(y, length), f64_from(length))
                     products == [i \in 1..length |->
                                     f64_mul(f64_sub(x[i], mean_x), f64_sub(y[i], mean_y))]
                     squares == [i \in 1..length |->
                                     f64_mul(f64_sub(x[i], mean_x), f64_sub(x[i], mean_x))]
                 IN  /\ output.status = "ok"
                     /\ DOMAIN output.value = {"slope", "intercept", "r_squared"}
                     /\ output.value.slope =
                            f64_div(F64SumFirst(products, length), F64SumFirst(squares, length))
                     /\ output.value.intercept =
                            f64_sub(mean_y, f64_mul(output.value.slope, mean_x))

--------------------------------------------------------------------------
(* data_structures/hamt_vector.rs: hamt_find_path *)

BITS_PER_LEVEL == 5

BRANCH_SIZE == 2 ^ BITS_PER_LEVEL

MASK == BRANCH_SIZE - 1

\* usize on the wasm32 target: 4 bytes
UsizeBits == 4 * 8

MaxHeight == 7

RECURSIVE ShiftRight(_, _)
ShiftRight(value, shift) ==
    IF shift = 0 \/ value = 0 THEN value ELSE ShiftRight(value \div 2, shift - 1)

(* index >> shift on usize.  A shift of UsizeBits or more overflows: with  *)
(* overflow checks the operation panics, without them the shift amount is  *)
(* taken modulo UsizeBits.                                                 *)
ShiftOverflows(shift) == shift >= UsizeBits

usize_shr(value, shift) == ShiftRight(value, shift % UsizeBits)

\* (index >> shift) & MASK
Position(index, level) == usize_shr(index, level * BITS_PER_LEVEL) % BRANCH_SIZE

\* for level in (0..=height).rev() { path[height - level] = position }
hamt_find_path(index, height, size, overflow_checks) ==
    IF overflow_checks /\ \E level \in 0..height : ShiftOverflows(level * BITS_PER_LEVEL)
    THEN Panic
    ELSE Ok([d \in 1..(height + 1) |-> Position(index, height - (d - 1))])

HamtIndexes == {0, 1, 31, 32, 40, 1023, 1024, 32768, 1048575, 2147483647}

HamtSizes == {0, 41}

CallFindPath ==
    /\ kernel = "none"
    /\ \E index \in HamtIndexes, height \in 0..MaxHeight, size \in HamtSizes,
          overflow_checks \in BOOLEAN :
          Call("hamt_find_path",
               [index |-> index, height |-> height, size |-> size,
                overflow_checks |-> overflow_checks],
               hamt_find_path(index, height, size, overflow_checks))

FindPathNext == CallFindPath

SpecFindPath == Idle /\ [][FindPathNext]_vars

\* index mod 32^n, digit by digit
RECURSIVE LowDigits(_, _)
LowDigits(index, n) ==
    IF n = 0 THEN 0 ELSE (index % 32) + 32 * LowDigits(index \div 32, n - 1)

\* sum of path[d] * 32^(height - d), most significant position first
RECURSIVE PathValue(_, _)
PathValue(path, n) ==
    IF n = 0 THEN 0 ELSE 32 * PathValue(path, n - 1) + path[n]

(* C19: for every index and height, hamt_find_path returns exactly         *)
(* height + 1 positions, each in 0..31, most significant level first, with *)
(* position d (0-based) equal to (index >> 5*(height - d)) & 31, so that   *)
(* the positions weighted by powers of 32 sum to index mod 32^(height+1);  *)
(* index 40 with height 1 gives [1, 8]; the size argument has no effect.   *)
C19_PathPositions ==
    kernel = "hamt_find_path" =>
        /\ output.status = "ok"
        /\ Len(output.value) = input.height + 1
        /\ \A d \in 0..input.height :
              /\ output.value[d + 1] \in 0..31
              /\ output.value[d + 1] =
                    ShiftRight(input.index, 5 * (input.height - d)) % 32
        /\ PathValue(output.value, input.height + 1) =
              LowDigits(input.index, input.height + 1)
        /\ (input.index = 40 /\ input.height = 1) => output.value = <<1, 8>>
        /\ \A size \in HamtSizes :
              output = hamt_find_path(input.index, input.height, size,
                                      input.overflow_checks)

--------------------------------------------------------------------------
(* algorithms/sorting.rs: the four passes of radix_sort_u32 *)

MaxRadixLen == 3

RadixBuffers == SeqsUpTo(RadixKeys, MaxRadixLen)

CallRadixSortBuffer ==
    /\ kernel = "none"
    /\ \E values \in RadixBuffers :
          Call("radix_sort_u32", values, radix_sort_u32(values))

RadixNext == CallRadixSortBuffer

SpecRadix == Idle /\ [][RadixNext]_vars

\* the byte a pass sorts by: pass 1 takes the least significant byte
PassByte(key, pass) ==
    CASE pass = 1 -> key % 256
      [] pass = 2 -> (key \div 256) % 256
      [] pass = 3 -> (key \div 65536) % 256
      [] pass = 4 -> (key \div 16777216) % 256

\* the low 8 * pass bits of a 32-bit key
LowBits(key, pass) ==
    CASE pass = 1 -> key % 256
      [] pass = 2 -> key % 65536
      [] pass = 3 -> key % 16777216
      [] pass = 4 -> key

KeysWithByte(buffer, pass, byte) ==
    LET Test(key) == PassByte(key, pass) = byte
    IN  SelectSeq(buffer, Test)

\* after is before reordered by the byte of the pass, ties in their old order
StablePass(before, after, pass) ==
    /\ IsPermutation(before, after)
    /\ \A i \in 1..(Len(after) - 1) :
          PassByte(after[i], pass) <= PassByte(after[i + 1], pass)
    /\ \A byte \in {PassByte(before[i], pass) : i \in 1..Len(before)} :
          KeysWithByte(after, pass, byte) = KeysWithByte(before, pass, byte)

OrderedByLowBits(buffer, pass) ==
    \A i \in 1..(Len(buffer) - 1) :
        LowBits(buffer[i], pass) <= LowBits(buffer[i + 1], pass)

(* C20: on every buffer of 32-bit keys radix_sort_u32 makes 4 counting-    *)
(* sort passes over the bytes, least significant first; each pass is a     *)
(* stable permutation (keys with the same current byte keep their relative *)
(* order), after pass p the buffer is ordered by the low 8p bits of each   *)
(* key, and the result is a non-decreasing permutation of the input.       *)
C20_RadixPasses ==
    kernel = "radix_sort_u32" =>
        LET after == [pass \in 0..4 |->
                         CASE pass = 0 -> input
                           [] pass = 1 -> RadixPass(input, 0)
                           [] pass = 2 -> RadixPass(RadixPass(input, 0), 1)
                           [] pass = 3 -> RadixPass(RadixPass(RadixPass(input, 0), 1), 2)
                           [] pass = 4 -> output]
        IN  /\ IsSorted(output)
            /\ IsPermutation(output, input)
            /\ Len(input) > 1 =>
                  /\ output = RadixPass(after[3], 3)
                  /\ \A pass \in 1..4 :
                        /\ StablePass(after[pass - 1], after[pass], pass)
                        /\ OrderedByLowBits(after[pass], pass)

\* three keys out of order, two of them with the same least significant byte
C20_Witness ==
    /\ kernel = "radix_sort_u32"
    /\ input = <<256, 1, 0>>
    /\ output = <<0, 1, 256>>
    /\ RadixPass(input, 0) = <<256, 0, 1>>


--------------------------------------------------------------------------
(* data_structures/compression.rs: the pairs written by rle_compress *)

\* "aaabcc"
RleExample == <<97, 97, 97, 98, 99, 99>>

RleTexts == SmallTexts \cup LongRuns \cup {RleExample}

CallRleCompressText ==
    /\ kernel = "none"
    /\ \E text \in RleTexts :
          Call("rle_compress", text, Ok(rle_compress(text)))

RleCompressNext == CallRleCompressText

SpecRleCompress == Idle /\ [][RleCompressNext]_vars

PairCount(pairs, n) == pairs[2 * n - 1]

PairByte(pairs, n) == pairs[2 * n]

RECURSIVE SumCounts(_, _)
SumCounts(pairs, n) == IF n = 0 THEN 0 ELSE SumCounts(pairs, n - 1) + PairCount(pairs, n)

RECURSIVE ExpandPairs(_, _)
ExpandPairs(pairs, n) ==
    IF n = 0 THEN <<>>
    ELSE ExpandPairs(pairs, n - 1)
            \o [i \in 1..PairCount(pairs, n) |-> PairByte(pairs, n)]

(* C21: for every non-empty string the output of rle_compress is a         *)
(* sequence of (count, byte) pairs of even total length, every count in    *)
(* 1..255, the counts summing to the input byte length, two adjacent pairs *)
(* carrying the same byte only when the first has count 255, and the pairs *)
(* expanded in order giving the input bytes; "aaabcc" gives                *)
(* [3,'a',1,'b',2,'c'].                                                    *)
C21_RlePairs ==
    (kernel = "rle_compress" /\ input # <<>>) =>
        /\ output.status = "ok"
        /\ Len(output.value) % 2 = 0
        /\ LET pairs == output.value
               n == Len(output.value) \div 2
           IN  /\ n >= 1
               /\ \A p \in 1..n : PairCount(pairs, p) \in 1..255
               /\ SumCounts(pairs, n) = Len(input)
               /\ \A p \in 1..(n - 1) :
                     PairByte(pairs, p) = PairByte(pairs, p + 1) => PairCount(pairs, p) = 255
               /\ ExpandPairs(pairs, n) = input
        /\ input = RleExample => output.value = <<3, 97, 1, 98, 2, 99>>

\* a run of 511 bytes is split into 255 + 255 + 1 and followed by another byte
C21_Witness ==
    /\ kernel = "rle_compress"
    /\ Len(input) = 2 * RLE_MAX_COUNT + 2
    /\ output.value = <<255, 97, 255, 97, 1, 97, 1, 98>>


--------------------------------------------------------------------------
(* data_structures/numeric.rs: numeric_sort_f64 *)

(* A comparator is a host function of two numbers.  The kernel calls it    *)
(* once, compare_fn.call1(&this, &this), with the array as `this` and as   *)
(* the first argument, and drops what it returns: Array.prototype.sort is  *)
(* never called, a comparator does not touch the array it is given, and    *)
(* js_array keeps the order in which it was filled.                        *)
InvokeCompareFn(compare_fn, js_array) == js_array

numeric_sort_f64(input_array, compare_fn) ==
    LET length == Len(input_array) IN
    IF length <= 1 THEN Ok(input_array)
    ELSE IF compare_fn # None
    THEN Ok(InvokeCompareFn(compare_fn[1], input_array))
    ELSE Ok(slice_sort_by(input_array))

Comparators == {"ascending", "descending"}

CallNumericSort ==
    /\ kernel = "none"
    /\ \E values \in SmallBuffers, compare_fn \in {None} \cup {Some(c) : c \in Comparators} :
          Call("numeric_sort_f64", [values |-> values, compare_fn |-> compare_fn],
               numeric_sort_f64(values, compare_fn))

NumericSortNext == CallNumericSort

SpecNumericSort == Idle /\ [][NumericSortNext]_vars

\* a before b is allowed by the comparator
InOrder(comparator, a, b) ==
    IF comparator = "descending" THEN a >= b ELSE a <= b

(* C22: with a comparator numeric_sort_f64 returns the multiset of the     *)
(* input arranged in the order the comparator defines; without one it      *)
(* returns the same multiset in non-decreasing order.                      *)
C22_SortedByComparator ==
    kernel = "numeric_sort_f64" =>
        /\ output.status = "ok"
        /\ IsPermutation(output.value, input.values)
        /\ LET comparator == IF input.compare_fn = None THEN "ascending"
                             ELSE input.compare_fn[1]
           IN  \A i \in 1..(Len(output.value) - 1) :
                  InOrder(comparator, output.value[i], output.value[i + 1])


--------------------------------------------------------------------------
(* data_structures/numeric_stats_extended.rs: skewness and kurtosis *)

(* Moments about the mean, kept exact: with sum the total of the n values, *)
(* n * (values[i] - mean) is n * values[i] - sum, so ScaledMoment(.., p)   *)
(* is n^p times the sum of (values[i] - mean)^p.                           *)
RECURSIVE ScaledMoment(_, _, _)
ScaledMoment(values, p, i) ==
    IF i = 0 THEN 0
    ELSE LET diff == Len(values) * values[i] - SumFirst(values, Len(values))
         IN  ScaledMoment(values, p, i - 1) + diff ^ p

Infinity(neg) == <<"inf", neg>>

(* adjustment * (m3 / n) / std_dev^3 with adjustment =                     *)
(* n * sqrt(n - 1) / (n - 2): for n = 2 the adjustment is n / 0.0, plus    *)
(* infinity, and its product with a zero third moment is NaN.  Beyond that *)
(* the value is a finite number fixed by n and the two moments; the square *)
(* roots are left unevaluated.                                             *)
numeric_skewness_f64(input_array) ==
    LET length == Len(input_array)
        m2 == ScaledMoment(input_array, 2, length)
        m3 == ScaledMoment(input_array, 3, length)
    IN  IF length = 0 THEN NaN
        ELSE IF length = 1 THEN F(0)
        ELSE IF m2 = 0 THEN F(0)
        ELSE IF length = 2
             THEN IF m3 = 0 THEN NaN ELSE Infinity(m3 < 0)
        ELSE <<"skewness", length, m2, m3>>

numeric_kurtosis_f64(input_array) ==
    LET length == Len(input_array)
        m2 == ScaledMoment(input_array, 2, length)
        m4 == ScaledMoment(input_array, 4, length)
    IN  IF length = 0 THEN NaN
        ELSE IF length <= 3 THEN NaN
        ELSE IF m2 = 0 THEN F(0)
        ELSE <<"kurtosis", length, m2, m4>>

CallSkewness ==
    /\ kernel = "none"
    /\ \E values \in SmallBuffers :
          Call("numeric_skewness_f64", values, Ok(numeric_skewness_f64(values)))

CallKurtosis ==
    /\ kernel = "none"
    /\ \E values \in SmallBuffers :
          Call("numeric_kurtosis_f64", values, Ok(numeric_kurtosis_f64(values)))

MomentsNext ==
    \/ CallSkewness
    \/ CallKurtosis

SpecMoments == Idle /\ [][MomentsNext]_vars

(* C23: numeric_skewness_f64 returns NaN for every buffer of fewer than 3  *)
(* elements and 0 for a buffer of 3 or more equal elements;                *)
(* numeric_kurtosis_f64 returns NaN for every buffer of at most 3          *)
(* elements; neither returns an error.                                     *)
C23_SmallSamples ==
    /\ kernel = "numeric_skewness_f64" =>
          /\ output.status = "ok"
          /\ Len(input) < 3 => output.value = NaN
          /\ (Len(input) >= 3 /\ AllEqual(input)) => output.value = F(0)
    /\ kernel = "numeric_kurtosis_f64" =>
          /\ output.status = "ok"
          /\ Len(input) <= 3 => output.value = NaN


--------------------------------------------------------------------------
(* data_structures/neural_network.rs: one step of neural_network_backprop_f64 *)

MaxLayer == 2

(* The kernel copies its four arguments with get_index and writes with     *)
(* set_index only to updated_weights and updated_biases, two arrays made   *)
(* by Float64Array::new_with_length: the caller's buffers in `input` are   *)
(* what they were before the call.                                         *)
CallBackpropStep ==
    /\ kernel = "none"
    /\ \E inputs \in SeqsUpTo({1, 2}, MaxLayer),
          weights \in SeqsUpTo({-1, 1}, MaxLayer * MaxLayer),
          biases \in SeqsUpTo({0, 1}, MaxLayer),
          targets \in SeqsUpTo({0, 1}, MaxLayer),
          learning_rate \in {1, 2} :
          Call("neural_network_backprop_f64",
               [inputs |-> inputs, weights |-> weights, biases |-> biases,
                targets |-> targets, learning_rate |-> learning_rate],
               neural_network_backprop_f64(inputs, weights, biases, targets, learning_rate))

BackpropNext == CallBackpropStep

SpecBackprop == Idle /\ [][BackpropNext]_vars

(* C24: neural_network_backprop_f64 returns new weights and biases buffers *)
(* of the same lengths as the ones passed in, in which every bias j is     *)
(* bias[j] - learning_rate*delta[j] and every weight entry [j,i] is        *)
(* weight[j,i] - learning_rate*delta[j]*input[i], with delta[j] =          *)
(* (output[j] - target[j]) * activation'(pre_activation[j]); no entry of   *)
(* the returned weight buffer is left unwritten.                           *)
C24_BackpropUpdates ==
    (kernel = "neural_network_backprop_f64" /\ output.status = "ok") =>
        LET num_outputs == Len(input.biases)
            num_features == Len(input.weights) \div num_outputs
            delta == [j \in 0..(num_outputs - 1) |->
                         Delta(input.inputs, input.weights, input.biases, input.targets,
                               num_features, j)]
        IN  /\ Len(output.value.weights) = Len(input.weights)
            /\ Len(output.value.biases) = Len(input.biases)
            /\ \A j \in 0..(num_outputs - 1) :
                  /\ At(output.value.biases, j)
                        = At(input.biases, j) - input.learning_rate * delta[j]
                  /\ \A i \in 0..(num_features - 1) :
                        /\ i < Len(input.inputs)
                        /\ At(output.value.weights, j * num_features + i)
                              = At(input.weights, j * num_features + i)
                                  - input.learning_rate * delta[j] * At(input.inputs, i)


--------------------------------------------------------------------------
(* data_structures/numeric.rs, numeric_stats.rs: the batch loops           *)
(*   for batch_start in (0..length).step_by(BATCH_SIZE) {                  *)
(*       let batch_end = std::cmp::min(batch_start + BATCH_SIZE, length);  *)
(* The kernels take the batch size as a parameter here, so that buffers of *)
(* a few elements are split into several batches; the values of the        *)
(* source, 4096 and 1024, are among the sizes used.                        *)

MAP_BATCH_SIZE == 1024

MaxBatchLen == 5

RECURSIVE BatchesMutant(_, _, _)
BatchesMutant(batch_start, length, batch_size) ==
    IF batch_start >= length THEN <<>>
    ELSE LET batch_end == Min2(batch_start + batch_size, length)
         IN  <<[batch_start |-> batch_start, batch_size |-> batch_end - batch_start]>>
               \o BatchesMutant(batch_start + batch_size + 1, length, batch_size)

(* the (batch_start, batch_size) pairs of one run of the batch loop *)
RECURSIVE Batches(_, _, _)
Batches(batch_start, length, batch_size) ==
    IF batch_start >= length THEN <<>>
    ELSE LET batch_end == Min2(batch_start + batch_size, length)
         IN  <<[batch_start |-> batch_start, batch_size |-> batch_end - batch_start]>>
               \o Batches(batch_start + batch_size, length, batch_size)

(* the indices batch_start + i of the inner loops, in the order they run *)
RECURSIVE Visits(_)
Visits(batches) ==
    IF batches = <<>> THEN <<>>
    ELSE [i \in 1..Head(batches).batch_size |-> Head(batches).batch_start + i - 1]
           \o Visits(Tail(batches))

(* total_sum += batch_sum over the batches *)
RECURSIVE SumBatches(_, _)
SumBatches(input_array, batches) ==
    IF batches = <<>> THEN 0
    ELSE SumBatches(input_array, SubSeq(batches, 1, Len(batches) - 1))
           + BatchSum(input_array, batches[Len(batches)].batch_start,
                      batches[Len(batches)].batch_size)

numeric_sum_batched(input_array, batch_size) ==
    IF Len(input_array) = 0 THEN [passes |-> <<>>, calls |-> <<>>, value |-> F(0)]
    ELSE LET batches == Batches(0, Len(input_array), batch_size)
         IN  [passes |-> <<batches>>, calls |-> <<>>,
              value |-> F(SumBatches(input_array, batches))]

(* sum_squared_diff times length^2: diff = values[i] - sum / length *)
RECURSIVE SumSquaredDiff(_, _, _, _)
SumSquaredDiff(input_array, sum, visits, n) ==
    IF n = 0 THEN 0
    ELSE LET diff == Len(input_array) * At(input_array, visits[n]) - sum
         IN  SumSquaredDiff(input_array, sum, visits, n - 1) + diff * diff

(* the result is sqrt(sum_squared_diff / length) *)
numeric_std_dev_f64(input_array, batch_size) ==
    LET length == Len(input_array)
        batches == Batches(0, length, batch_size)
        sum == SumBatches(input_array, batches)
        visits == Visits(batches)
    IN  IF length = 0 THEN [passes |-> <<>>, calls |-> <<>>, value |-> NaN]
        ELSE IF length = 1 THEN [passes |-> <<>>, calls |-> <<>>, value |-> F(0)]
        ELSE [passes |-> <<batches, batches>>, calls |-> <<>>,
              value |-> <<"sqrt", SumSquaredDiff(input_array, sum, visits, Len(visits)),
                          length * length * length>>]

(* the value a callback returns for its arguments: an uninterpreted term *)
JsCall(function, args) == <<function, args>>

numeric_map_f64(input_array, map_fn, batch_size) ==
    LET length == Len(input_array)
        batches == Batches(0, length, batch_size)
        visits == Visits(batches)
    IN  [passes |-> <<batches>>,
         calls |-> [n \in 1..Len(visits) |-> <<At(input_array, visits[n]), visits[n]>>],
         value |-> [i \in 1..length |->
                       IF \E n \in 1..Len(visits) : visits[n] = i - 1
                       THEN JsCall(map_fn, <<input_array[i], i - 1>>)
                       ELSE 0]]

RECURSIVE Accumulate(_, _, _, _, _)
Accumulate(input_array, reduce_fn, initial, visits, n) ==
    IF n = 0 THEN initial
    ELSE JsCall(reduce_fn, <<Accumulate(input_array, reduce_fn, initial, visits, n - 1),
                            At(input_array, visits[n]), visits[n]>>)

numeric_reduce_f64(input_array, reduce_fn, initial, batch_size) ==
    LET length == Len(input_array)
        batches == Batches(0, length, batch_size)
        visits == Visits(batches)
    IN  IF length = 0 THEN [passes |-> <<>>, calls |-> <<>>, value |-> initial]
        ELSE [passes |-> <<batches>>,
              calls |-> [n \in 1..Len(visits) |->
                            <<At(input_array, visits[n]), visits[n]>>],
              value |-> Accumulate(input_array, reduce_fn, initial, visits, Len(visits))]

BatchBuffers == SeqsUpTo(0..1, MaxBatchLen)

SumBatchSizes == {1, 2, 3, BATCH_SIZE}

MapBatchSizes == {1, 2, 3, MAP_BATCH_SIZE}

CallSumBatched ==
    /\ kernel = "none"
    /\ \E values \in BatchBuffers, batch_size \in SumBatchSizes :
          Call("numeric_sum_f64", [values |-> values, batch_size |-> batch_size],
               Ok(numeric_sum_batched(values, batch_size)))

CallStdDevBatched ==
    /\ kernel = "none"
    /\ \E values \in BatchBuffers, batch_size \in SumBatchSizes :
          Call("numeric_std_dev_f64", [values |-> values, batch_size |-> batch_size],
               Ok(numeric_std_dev_f64(values, batch_size)))

CallMapBatched ==
    /\ kernel = "none"
    /\ \E values \in BatchBuffers, batch_size \in MapBatchSizes :
          Call("numeric_map_f64", [values |-> values, batch_size |-> batch_size],
               Ok(numeric_map_f64(values, "map_fn", batch_size)))

CallReduceBatched ==
    /\ kernel = "none"
    /\ \E values \in BatchBuffers, batch_size \in MapBatchSizes :
          Call("numeric_reduce_f64", [values |-> values, batch_size |-> batch_size],
               Ok(numeric_reduce_f64(values, "reduce_fn", "initial", batch_size)))

BatchNext ==
    \/ CallSumBatched
    \/ CallStdDevBatched
    \/ CallMapBatched
    \/ CallReduceBatched

SpecBatch == Idle /\ [][BatchNext]_vars

BatchKernels ==
    {"numeric_sum_f64", "numeric_std_dev_f64", "numeric_map_f64", "numeric_reduce_f64"}

(* the batches of one pass tile 0..length-1: the first starts at 0, each   *)
(* next one starts where the one before ends, the last ends at length, and *)
(* each holds between 1 and batch_size indices                             *)
Tiles(batches, length, batch_size) ==
    /\ \A n \in 1..Len(batches) :
          /\ batches[n].batch_size >= 1
          /\ batches[n].batch_size <= batch_size
          /\ batches[n].batch_start
                = (IF n = 1 THEN 0
                   ELSE batches[n - 1].batch_start + batches[n - 1].batch_size)
    /\ length = (IF batches = <<>> THEN 0
                 ELSE batches[Len(batches)].batch_start + batches[Len(batches)].batch_size)

RECURSIVE ReduceAll(_, _)
ReduceAll(values, n) ==
    IF n = 0 THEN "initial"
    ELSE <<"reduce_fn", <<ReduceAll(values, n - 1), values[n], n - 1>>>>

(* the result of the kernel computed over the whole buffer at once *)
Unbatched(k, values) ==
    LET n == Len(values)
        sum == SumFirst(values, n)
        squares == [i \in 1..n |-> (n * values[i] - sum) * (n * values[i] - sum)]
    IN  CASE k = "numeric_sum_f64" -> F(sum)
          [] k = "numeric_std_dev_f64" ->
                IF n = 0 THEN NaN
                ELSE IF n = 1 THEN F(0)
                ELSE <<"sqrt", SumFirst(squares, n), n * n * n>>
          [] k = "numeric_map_f64" -> [i \in 1..n |-> <<"map_fn", <<values[i], i - 1>>>>]
          [] k = "numeric_reduce_f64" -> ReduceAll(values, n)

(* C25: in every pass of a batched kernel (numeric_sum_f64,                *)
(* numeric_std_dev_f64, numeric_map_f64, numeric_reduce_f64) the batches   *)
(* are (offset, length) pairs that cover the indices 0..length-1 in        *)
(* increasing order without gap or overlap, each batch non-empty and at    *)
(* most the batch size long; the result is the one computed without        *)
(* batches, whatever the batch size, and map and reduce call the callback  *)
(* once per element, in order, with the element's global index.            *)
C25_BatchesTile ==
    (kernel \in BatchKernels /\ DOMAIN input = {"values", "batch_size"}) =>
        /\ output.status = "ok"
        /\ \A p \in 1..Len(output.value.passes) :
              Tiles(output.value.passes[p], Len(input.values), input.batch_size)
        /\ output.value.value = Unbatched(kernel, input.values)
        /\ kernel \in {"numeric_map_f64", "numeric_reduce_f64"} =>
              output.value.calls
                 = [i \in 1..Len(input.values) |-> <<input.values[i], i - 1>>]

C25_Witness ==
    /\ kernel = "numeric_reduce_f64"
    /\ input.values = <<1, 0, 1, 1, 0>>
    /\ input.batch_size = 2
    /\ output.value.passes
          = <<<<[batch_start |-> 0, batch_size |-> 2], [batch_start |-> 2, batch_size |-> 2],
                [batch_start |-> 4, batch_size |-> 1]>>>>


--------------------------------------------------------------------------
(* data_structures/compression.rs: the tree of huffman_compress and of     *)
(* huffman_decompress after the merge loop, with the queue and the two     *)
(* nodes popped at every turn of the loop                                  *)

RECURSIVE MergeSteps(_)
MergeSteps(data) ==
    IF Len(data) > 1
    THEN LET p1 == heap_pop(data)
             p2 == heap_pop(p1.data)
         IN  <<[queue |-> data, left |-> p1.item, right |-> p2.item]>>
               \o MergeSteps(heap_push(p2.data, MergeTwo(p1.item, p2.item)))
    ELSE <<>>

(* frequencies is not empty *)
huffman_tree(frequencies, order) ==
    LET root == BuildTree(frequencies, order)[1]
    IN  [frequencies |-> frequencies,
         root |-> root,
         steps |-> MergeSteps(PushLeaves(<<>>, frequencies, order, 1)),
         codes |-> build_codes(root, <<>>)]

CallCompressTree ==
    /\ kernel = "none"
    /\ \E text \in SmallTexts \ {<<>>} :
          \E order \in IterationOrders(Range(text)) :
              Call("huffman_compress", text, Ok(huffman_tree(Frequencies(text), order)))

CallDecompressTree ==
    /\ kernel = "none"
    /\ \E text \in SmallTexts \ {<<>>} :
          \E bytes \in {huffman_compress(text, order) : order \in IterationOrders(Range(text))} :
              \E order \in DecodeOrders(bytes) :
                  Call("huffman_decompress", bytes,
                       Ok(huffman_tree(ParseHeader(bytes).frequencies, order)))

TreeNext == CallCompressTree \/ CallDecompressTree

SpecTree == Idle /\ [][TreeNext]_vars

RECURSIVE Subtrees(_)
Subtrees(node) ==
    {node} \cup (IF node.left = None THEN {} ELSE Subtrees(node.left[1]))
           \cup (IF node.right = None THEN {} ELSE Subtrees(node.right[1]))

RECURSIVE LeafBytes(_)
LeafBytes(node) ==
    IF node.left = None /\ node.right = None THEN <<node.byte[1]>>
    ELSE (IF node.left = None THEN <<>> ELSE LeafBytes(node.left[1]))
           \o (IF node.right = None THEN <<>> ELSE LeafBytes(node.right[1]))

RECURSIVE SumOver(_, _)
SumOver(f, S) ==
    IF S = {} THEN 0 ELSE LET x == CHOOSE x \in S : TRUE IN f[x] + SumOver(f, S \ {x})

IsPrefix(a, b) == Len(a) <= Len(b) /\ SubSeq(b, 1, Len(a)) = a

TreeShape(tree) ==
    /\ \A node \in Subtrees(tree.root) :
          \/ node.byte = None /\ node.left # None /\ node.right # None
               /\ node.freq = node.left[1].freq + node.right[1].freq
          \/ node.byte # None /\ node.left = None /\ node.right = None
               /\ node.freq = tree.frequencies[node.byte[1]]
    /\ Len(LeafBytes(tree.root)) = Cardinality(DOMAIN tree.frequencies)
    /\ Range(LeafBytes(tree.root)) = DOMAIN tree.frequencies
    /\ tree.root.freq = SumOver(tree.frequencies, DOMAIN tree.frequencies)
    /\ \A c, d \in tree.codes : IsPrefix(c[2], d[2]) => c = d

(* the two nodes popped are the two of lowest frequency in the queue *)
TookTwoLowest(step) ==
    LET low == Min2(step.left.freq, step.right.freq)
        high == IF step.left.freq < step.right.freq THEN step.right.freq ELSE step.left.freq
    IN  /\ \A i \in 1..Len(step.queue) : low <= step.queue[i].freq
        /\ Cardinality({i \in 1..Len(step.queue) : step.queue[i].freq < high}) <= 1

(* C26: after the merge loop of huffman_compress and huffman_decompress    *)
(* over a table of m >= 1 distinct bytes, every internal node has two      *)
(* children and no byte, every leaf a byte and no children, there are m    *)
(* leaves, one per distinct byte, every internal node's frequency is the   *)
(* sum of its children's, the root frequency is the input length, every    *)
(* merge step took the two lowest-frequency nodes then in the queue, and   *)
(* the codes of build_codes are pairwise prefix-free.                      *)
C26_HuffmanTree ==
    (kernel \in {"huffman_compress", "huffman_decompress"} /\ output.status = "ok"
        /\ DOMAIN output.value = {"frequencies", "root", "steps", "codes"}) =>
        /\ TreeShape(output.value)
        /\ kernel = "huffman_compress" => output.value.root.freq = Len(input)
        /\ \A n \in 1..Len(output.value.steps) : TookTwoLowest(output.value.steps[n])


--------------------------------------------------------------------------
(* data_structures/hamt_vector.rs: the bitmap of a HAMT node.  A u32 is    *)
(* the function from its bit positions 0..31 (bit 0 the least significant) *)
(* to the bits 0 and 1.                                                    *)

U32_BITS == 2 ^ BITS_PER_LEVEL

BitPositions == 0..(U32_BITS - 1)

(* 1 << position for position < 32 *)
OneShl(position) == [i \in BitPositions |-> IF i = position THEN 1 ELSE 0]

(* x - 1, wrapping: the borrow runs through the zero bits below the lowest *)
(* set bit, which it clears                                                *)
WrappingSubOne(x) ==
    LET set == {i \in BitPositions : x[i] = 1}
        lowest == IF set = {} THEN U32_BITS ELSE CHOOSE i \in set : \A j \in set : i <= j
    IN  [i \in BitPositions |-> IF i < lowest THEN 1 ELSE IF i = lowest THEN 0 ELSE x[i]]

hamt_get_index_mutant(bitmap, position) ==
    LET mask == WrappingSubOne(OneShl(position + 1))
        count == Cardinality({i \in BitPositions : bitmap[i] = 1 /\ mask[i] = 1})
    IN  Ok(count)

(* (bitmap & mask).count_ones() with mask = (1 << position) - 1 *)
hamt_get_index(bitmap, position) ==
    LET mask == WrappingSubOne(OneShl(position))
        count == Cardinality({i \in BitPositions : bitmap[i] = 1 /\ mask[i] = 1})
    IN  Ok(count)

(* bitmap | (1 << position) *)
hamt_set_bit(bitmap, position) ==
    LET bit == OneShl(position)
    IN  Ok([i \in BitPositions |-> IF bitmap[i] = 1 \/ bit[i] = 1 THEN 1 ELSE 0])

(* bitmap & !(1 << position) *)
hamt_clear_bit(bitmap, position) ==
    LET bit == OneShl(position)
    IN  Ok([i \in BitPositions |-> IF bitmap[i] = 1 /\ bit[i] # 1 THEN 1 ELSE 0])

BitmapOf(S) == [i \in BitPositions |-> IF i \in S THEN 1 ELSE 0]

Bitmaps == {BitmapOf(S) : S \in SUBSET {0, 1, 5, 30, 31}} \cup {BitmapOf(BitPositions)}

CallGetIndex ==
    /\ kernel = "none"
    /\ \E bitmap \in Bitmaps, position \in BitPositions :
          Call("hamt_get_index", [bitmap |-> bitmap, position |-> position],
               hamt_get_index(bitmap, position))

CallSetBit ==
    /\ kernel = "none"
    /\ \E bitmap \in Bitmaps, position \in BitPositions :
          Call("hamt_set_bit", [bitmap |-> bitmap, position |-> position],
               hamt_set_bit(bitmap, position))

CallClearBit ==
    /\ kernel = "none"
    /\ \E bitmap \in Bitmaps, position \in BitPositions :
          Call("hamt_clear_bit", [bitmap |-> bitmap, position |-> position],
               hamt_clear_bit(bitmap, position))

BitmapNext == CallGetIndex \/ CallSetBit \/ CallClearBit

SpecBitmap == Idle /\ [][BitmapNext]_vars

SetBitsBelow(b, p) == Cardinality({i \in BitPositions : i < p /\ b[i] = 1})

(* C27: for every bitmap b and position p in 0..31, hamt_get_index(b, p)   *)
(* is the number of set bits of b below p; hamt_set_bit(b, p) sets bit p   *)
(* and hamt_clear_bit(b, p) clears it, changing no other bit; both are     *)
(* idempotent; clearing after setting a clear bit gives b back; and        *)
(* setting a clear bit p raises hamt_get_index(., q) by 1 for q > p and    *)
(* leaves it unchanged for q <= p.                                         *)
C27_BitmapAlgebra ==
    LET b == input.bitmap
        p == input.position
        r == output.value
    IN  /\ kernel = "hamt_get_index" => output = Ok(SetBitsBelow(b, p))
        /\ kernel = "hamt_set_bit" =>
              /\ output.status = "ok"
              /\ r[p] = 1
              /\ \A i \in BitPositions \ {p} : r[i] = b[i]
              /\ hamt_set_bit(r, p) = output
              /\ b[p] = 0 =>
                    /\ hamt_clear_bit(r, p) = Ok(b)
                    /\ \A q \in BitPositions :
                          hamt_get_index(r, q).value
                             = hamt_get_index(b, q).value + (IF q > p THEN 1 ELSE 0)
        /\ kernel = "hamt_clear_bit" =>
              /\ output.status = "ok"
              /\ r[p] = 0
              /\ \A i \in BitPositions \ {p} : r[i] = b[i]
              /\ hamt_clear_bit(r, p) = output

C27_Witness ==
    /\ kernel = "hamt_set_bit"
    /\ input.bitmap = BitmapOf({0, 5, 31})
    /\ input.position = 30
    /\ output = Ok(BitmapOf({0, 5, 30, 31}))
    /\ hamt_get_index(output.value, 31) = Ok(3)


--------------------------------------------------------------------------
(* data_structures/compression.rs: the tree of huffman_compress for a text *)
(* and the tree huffman_decompress rebuilds from the header of its payload *)

CallEncodeSide ==
    /\ kernel = "none"
    /\ \E text \in SmallTexts \ {<<>>} :
          \E order \in IterationOrders(Range(text)) :
              Call("huffman_compress", text,
                   Ok([tree |-> huffman_tree(Frequencies(text), order),
                       bytes |-> huffman_compress(text, order)]))

CallDecodeSide ==
    /\ kernel = "huffman_compress"
    /\ \E order \in DecodeOrders(output.value.bytes) :
          Call("huffman_decompress", output.value.bytes,
               Ok(huffman_tree(ParseHeader(output.value.bytes).frequencies, order)))

RebuildNext == CallEncodeSide \/ CallDecodeSide

SpecRebuild == Idle /\ [][RebuildNext]_vars

(* C28: the tree huffman_decompress rebuilds from the header is the tree   *)
(* huffman_compress built for the text, whatever the frequency table       *)
(* (equal frequencies included) and whatever the orders in which the two   *)
(* tables are iterated: every byte has the same bit-code on both sides.    *)
C28_SameTree ==
    (kernel = "huffman_decompress" /\ prev.kernel = "huffman_compress") =>
        /\ output.value.root = prev.output.value.tree.root
        /\ output.value.codes = prev.output.value.tree.codes


--------------------------------------------------------------------------
(* data_structures/compression.rs: the bit-walk of huffman_decompress over *)
(* a payload of huffman_compress, before the bytes are turned into a text  *)

(* the header is well formed and declares at least one byte *)
huffman_walk(bytes_vec, order) ==
    LET header == ParseHeader(bytes_vec)
        root == BuildTree(header.frequencies, order)[1]
        Step(st) == DecodeStep(bytes_vec, header.i, root, st)
        last == Iterate(Step, [k |-> 0, node |-> root, panic |-> FALSE, decoded |-> <<>>],
                        8 * (Len(bytes_vec) - header.i))
    IN  [frequencies |-> header.frequencies, decoded |-> last.decoded, panic |-> last.panic]

CallWalkPayload ==
    /\ kernel = "huffman_compress"
    /\ output.value # <<>>
    /\ \E order \in DecodeOrders(output.value) :
          Call("huffman_decompress", output.value, Ok(huffman_walk(output.value, order)))

WalkNext == CallHuffmanCompress \/ CallWalkPayload

SpecWalk == Idle /\ [][WalkNext]_vars

(* C29: on a payload of huffman_compress the bit-walk of                   *)
(* huffman_decompress emits as many bytes as the frequencies of the header *)
(* add up to: the padding bits of the last byte decode into no symbol,     *)
(* every byte of the alphabet has a code of at least one bit, and the walk *)
(* never steps to a child of a leaf.                                       *)
C29_WalkEmitsInputLength ==
    (kernel = "huffman_decompress" /\ prev.kernel = "huffman_compress") =>
        /\ ~output.value.panic
        /\ Len(output.value.decoded)
              = SumOver(output.value.frequencies, DOMAIN output.value.frequencies)
        /\ \A order \in IterationOrders(Range(prev.input)) :
              \A c \in build_codes(BuildTree(Frequencies(prev.input), order)[1], <<>>) :
                  Len(c[2]) >= 1


--------------------------------------------------------------------------
(* data_structures/machine_learning.rs: invariants of the loop of          *)
(* kmeans_clustering_f64                                                   *)

(* the loop is running or the call has returned a result object *)
KmInLoop == km.pc \in {"assign", "update"} \/ KmReturned

(* the centroids are the ones the last update wrote from km.assignments *)
KmJustUpdated ==
    /\ km.pc = "assign" \/ (KmReturned /\ ~km.converged)
    /\ km.iteration >= 1

(* centroid ce is at the data point p *)
AtPoint(ce, p) == ce.sx = p[1] * ce.c /\ ce.sy = p[2] * ce.c

(* centroid ce is the mean of the points with the indices m *)
IsMean(ce, points, m) ==
    /\ ce.sx * Cardinality(m) = SumCoord(points, m, 1) * ce.c
    /\ ce.sy * Cardinality(m) = SumCoord(points, m, 2) * ce.c

(* C30: in every state of the loop of kmeans_clustering_f64 and in every   *)
(* result each assignment is a cluster id in 0..k-1 and there are exactly  *)
(* k centroids; when the call returns converged = true every point is      *)
(* assigned to a centroid of minimal squared distance among the returned   *)
(* centroids, the lowest id on ties; and after every centroid update each  *)
(* centroid is the mean of the points assigned to it or, for an empty      *)
(* cluster, one of the data points.                                        *)
C30_KmeansInvariants ==
    /\ KmInLoop =>
          /\ Len(km.centroids) = km.k
          /\ Len(km.assignments) = Len(km.points)
          /\ \A i \in 1..Len(km.points) : km.assignments[i] \in 0..(km.k - 1)
    /\ (KmReturned /\ km.converged) =>
          \A i \in 1..Len(km.points) :
              LET mine == km.centroids[km.assignments[i] + 1] IN
              \A j \in 1..km.k :
                  /\ DistNum(km.points[i], mine) * km.centroids[j].c * km.centroids[j].c
                        <= DistNum(km.points[i], km.centroids[j]) * mine.c * mine.c
                  /\ j < km.assignments[i] + 1 =>
                        DistNum(km.points[i], mine) * km.centroids[j].c * km.centroids[j].c
                           < DistNum(km.points[i], km.centroids[j]) * mine.c * mine.c
    /\ (KmInLoop /\ KmJustUpdated) =>
          \A j \in 1..km.k :
              LET m == {i \in 1..Len(km.points) : km.assignments[i] = j - 1} IN
              IF m # {} THEN IsMean(km.centroids[j], km.points, m)
              ELSE \E i \in 1..Len(km.points) : AtPoint(km.centroids[j], km.points[i])

C30_Witness ==
    /\ KmReturned
    /\ km.converged
    /\ km.k = 2
    /\ km.iteration >= 1
    /\ km.points = <<<<0, 0>>, <<1, 0>>, <<0, 2>>>>
    /\ km.assignments = <<0, 0, 1>>
    /\ km.centroids[1].c = 2

==========================================================================
